---- MODULE Spec2Model ----
(***************************************************************************)
(* State-machine model of the MultiSessionVotingSystem contract            *)
(* (src/unnamed/part_000).  Every public function of the contract is an    *)
(* operator from the storage before the call to a result record holding    *)
(* the storage at the point where execution stopped; Transact models the   *)
(* transaction boundary: a call that hits a failing require reverts to     *)
(* the storage and the event log it started from.                          *)
(***************************************************************************)
EXTENDS Integers, Sequences, FiniteSets, TLC

VARIABLES sessionCount, votingSessions, registeredVoters, owner, now, log,
          logCap, frozen

\* sessionCount .. owner are the contract's storage, now is block.timestamp
\* and log the event log of the chain.  Two variables record history and are
\* read by no function of the contract:
\*   logCap   the length up to which the log of the run is followed;
\*   frozen   per session, the candidate collection the session had at the
\*            last moment of the current clock value at which it accepted
\*            votes (<<>> when there was no such moment).
vars ==
  <<sessionCount, votingSessions, registeredVoters, owner, now, log,
    logCap, frozen>>

(* ------------------------------ bounds -------------------------------- *)

MaxSessions == 2
MaxCandidates == 2
MaxTime == 2
MaxLog == 5
MaxMore == 3

(* ------------------------------ inputs -------------------------------- *)

ZeroAddress == "0x0"
Deployer == "owner"
Callers == {"owner", "v1"}
Address == Callers \cup {ZeroAddress}

SessionNames == {"", "Election"}
CandidateNames == {"", "Alice", "Bob"}
Windows == {<<0, 1>>, <<1, 2>>, <<1, 1>>}
NewNames == {"", "Carol"}
SessionIds == 0..MaxSessions
CandidateIds == 0..MaxCandidates
NameLists ==
  {<<>>, <<"Alice">>, <<"Alice", "Bob">>, <<"", "Alice", "Bob">>,
   <<"Alice", "", "Bob">>, <<"Alice", "Bob", "">>}
AddressLists ==
  {<<>>, <<"v1">>, <<"v1", "v1">>, <<ZeroAddress, "v1">>, <<"owner", ZeroAddress>>}

\* The candidates a list adds before createSession stops at an empty name
\* fit the modelled candidate table.
Fits(names) ==
  \A i \in 1..Len(names) :
    (\A j \in 1..i : names[j] # "") => i <= MaxCandidates

(* --------------------------- storage layout --------------------------- *)

ZeroCandidate == [id |-> 0, name |-> "", voteCount |-> 0, isActive |-> FALSE]

ZeroSession ==
  [sessionId |-> 0, sessionName |-> "", startTime |-> 0, endTime |-> 0,
   isActive |-> FALSE, isCreated |-> FALSE, candidateCount |-> 0,
   totalVotes |-> 0,
   candidates |-> [i \in 1..MaxCandidates |-> ZeroCandidate],
   hasVoted |-> [a \in Address |-> FALSE],
   voterChoice |-> [a \in Address |-> 0]]

\* The contract's storage together with the event log of the chain.
Ledger ==
  [sessionCount |-> sessionCount, votingSessions |-> votingSessions,
   registeredVoters |-> registeredVoters, owner |-> owner, log |-> log]

(* ------------------------------ events -------------------------------- *)

SessionCreated(sid, name, st, en) ==
  [type |-> "SessionCreated", sessionId |-> sid, sessionName |-> name,
   startTime |-> st, endTime |-> en]
SessionStarted(sid) == [type |-> "SessionStarted", sessionId |-> sid]
SessionEnded(sid) == [type |-> "SessionEnded", sessionId |-> sid]
CandidateAdded(sid, cid, name) ==
  [type |-> "CandidateAdded", sessionId |-> sid, candidateId |-> cid,
   candidateName |-> name]
CandidateUpdated(sid, cid, name) ==
  [type |-> "CandidateUpdated", sessionId |-> sid, candidateId |-> cid,
   newName |-> name]
CandidateRemoved(sid, cid) ==
  [type |-> "CandidateRemoved", sessionId |-> sid, candidateId |-> cid]
VoteCast(sid, voter, cid) ==
  [type |-> "VoteCast", sessionId |-> sid, voter |-> voter, candidateId |-> cid]
VoterRegistered(voter) == [type |-> "VoterRegistered", voter |-> voter]

(* ------------------------- results of a call -------------------------- *)

\* A require that fails: execution stops in storage S with the message.
Fail(S, msg) == [ok |-> FALSE, err |-> msg, st |-> S, ret |-> 0]
\* The function body ran to its end in storage S and returned ret.
Done(S, ret) == [ok |-> TRUE, err |-> "", st |-> S, ret |-> ret]

Emit(S, e) == [S EXCEPT !.log = Append(@, e)]

\* Variant of Transact: a failed call keeps what it wrote before it failed.
Transact_NoRevert(S, r) == r.st

\* The storage and log after the transaction: a revert restores S.
Transact(S, r) == IF r.ok THEN r.st ELSE S

(* --------------------------- view functions --------------------------- *)

\* Variant of isSessionActive: the active flag alone decides, the window is
\* not looked at.
isSessionActive_FlagOnly(S, t, sid) ==
  IF sid = 0 \/ sid > S.sessionCount THEN FALSE
  ELSE S.votingSessions[sid].isCreated /\ S.votingSessions[sid].isActive

\* Variant of isSessionActive: the window is open at its end, [start, end).
isSessionActive_ExclusiveEnd(S, t, sid) ==
  IF sid = 0 \/ sid > S.sessionCount THEN FALSE
  ELSE IF ~S.votingSessions[sid].isCreated \/ ~S.votingSessions[sid].isActive
       THEN FALSE
       ELSE t >= S.votingSessions[sid].startTime
            /\ t < S.votingSessions[sid].endTime

isSessionActive(S, t, sid) ==
  IF sid = 0 \/ sid > S.sessionCount THEN FALSE
  ELSE IF ~S.votingSessions[sid].isCreated \/ ~S.votingSessions[sid].isActive
       THEN FALSE
       ELSE t >= S.votingSessions[sid].startTime
            /\ t <= S.votingSessions[sid].endTime

\* The two requires of the sessionExists modifier; "" when both pass.
sessionExists(S, sid) ==
  IF ~(sid > 0 /\ sid <= S.sessionCount) THEN "Session does not exist"
  ELSE IF ~S.votingSessions[sid].isCreated THEN "Session not found"
  ELSE ""

\* Variant of onlyOwner: every registered voter passes.
onlyOwner_Registered(S, sender) ==
  IF S.registeredVoters[sender] THEN "" ELSE "Only owner can perform this action"

onlyOwner(S, sender) ==
  IF sender = S.owner THEN "" ELSE "Only owner can perform this action"

\* Variant of sessionNotActive: the block ends when the clock reaches endTime.
sessionNotActive_ExclusiveEnd(S, t, sid) ==
  IF ~isSessionActive_ExclusiveEnd(S, t, sid) THEN ""
  ELSE "Cannot modify active session"

sessionNotActive(S, t, sid) ==
  IF ~isSessionActive(S, t, sid) THEN "" ELSE "Cannot modify active session"

(* --------------------------- owner functions -------------------------- *)

\* Variant of addCandidateToSession: the name is not checked.
addCandidateToSession_NoNameCheck(S, sender, t, sid, name) ==
  IF onlyOwner(S, sender) # "" THEN Fail(S, onlyOwner(S, sender))
  ELSE IF sessionExists(S, sid) # "" THEN Fail(S, sessionExists(S, sid))
  ELSE IF sessionNotActive(S, t, sid) # "" THEN Fail(S, sessionNotActive(S, t, sid))
  ELSE
    LET n == S.votingSessions[sid].candidateCount + 1
        S1 == [S EXCEPT !.votingSessions[sid].candidateCount = n,
                        !.votingSessions[sid].candidates[n] =
                           [id |-> n, name |-> name, voteCount |-> 0,
                            isActive |-> TRUE]]
    IN Done(Emit(S1, CandidateAdded(sid, n, name)), 0)

addCandidateToSession(S, sender, t, sid, name) ==
  IF onlyOwner(S, sender) # "" THEN Fail(S, onlyOwner(S, sender))
  ELSE IF sessionExists(S, sid) # "" THEN Fail(S, sessionExists(S, sid))
  ELSE IF sessionNotActive(S, t, sid) # "" THEN Fail(S, sessionNotActive(S, t, sid))
  ELSE IF name = "" THEN Fail(S, "Candidate name cannot be empty")
  ELSE
    LET n == S.votingSessions[sid].candidateCount + 1
        S1 == [S EXCEPT !.votingSessions[sid].candidateCount = n,
                        !.votingSessions[sid].candidates[n] =
                           [id |-> n, name |-> name, voteCount |-> 0,
                            isActive |-> TRUE]]
    IN Done(Emit(S1, CandidateAdded(sid, n, name)), 0)

\* Variant of AddCandidates: the loop stops one name early.
RECURSIVE AddCandidates_OffByOne(_, _, _, _, _, _)
AddCandidates_OffByOne(S, sender, t, sid, names, i) ==
  IF i > Len(names) - 1 THEN Done(S, 0)
  ELSE LET r == addCandidateToSession(S, sender, t, sid, names[i])
       IN IF r.ok THEN AddCandidates_OffByOne(r.st, sender, t, sid, names, i + 1)
          ELSE r

\* The loop of createSession from index i on: stops at the first failing call.
RECURSIVE AddCandidates(_, _, _, _, _, _)
AddCandidates(S, sender, t, sid, names, i) ==
  IF i > Len(names) THEN Done(S, 0)
  ELSE LET r == addCandidateToSession(S, sender, t, sid, names[i])
       IN IF r.ok THEN AddCandidates(r.st, sender, t, sid, names, i + 1)
          ELSE r

\* Variant of createSession: a window with startTime = endTime is accepted.
createSession_AllowsEqualTimes(S, sender, t, name, st, en, names) ==
  IF onlyOwner(S, sender) # "" THEN Fail(S, onlyOwner(S, sender))
  ELSE IF ~(st <= en) THEN Fail(S, "Invalid time range")
  ELSE IF ~(Len(names) > 0) THEN Fail(S, "At least one candidate required")
  ELSE IF name = "" THEN Fail(S, "Session name cannot be empty")
  ELSE
    LET sid == S.sessionCount + 1
        S1 == [S EXCEPT !.sessionCount = sid,
                        !.votingSessions[sid] =
                           [@ EXCEPT !.sessionId = sid,
                                     !.sessionName = name,
                                     !.startTime = st,
                                     !.endTime = en,
                                     !.isActive = FALSE,
                                     !.isCreated = TRUE,
                                     !.candidateCount = 0,
                                     !.totalVotes = 0]]
        r == AddCandidates(S1, sender, t, sid, names, 1)
    IN IF ~r.ok THEN r
       ELSE Done(Emit(r.st, SessionCreated(sid, name, st, en)), sid)

createSession(S, sender, t, name, st, en, names) ==
  IF onlyOwner(S, sender) # "" THEN Fail(S, onlyOwner(S, sender))
  ELSE IF ~(st < en) THEN Fail(S, "Invalid time range")
  ELSE IF ~(Len(names) > 0) THEN Fail(S, "At least one candidate required")
  ELSE IF name = "" THEN Fail(S, "Session name cannot be empty")
  ELSE
    LET sid == S.sessionCount + 1
        S1 == [S EXCEPT !.sessionCount = sid,
                        !.votingSessions[sid] =
                           [@ EXCEPT !.sessionId = sid,
                                     !.sessionName = name,
                                     !.startTime = st,
                                     !.endTime = en,
                                     !.isActive = FALSE,
                                     !.isCreated = TRUE,
                                     !.candidateCount = 0,
                                     !.totalVotes = 0]]
        r == AddCandidates(S1, sender, t, sid, names, 1)
    IN IF ~r.ok THEN r
       ELSE Done(Emit(r.st, SessionCreated(sid, name, st, en)), sid)

\* Variant of updateCandidate: the rename is not announced.
updateCandidate_Silent(S, sender, t, sid, cid, newName) ==
  IF onlyOwner(S, sender) # "" THEN Fail(S, onlyOwner(S, sender))
  ELSE IF sessionExists(S, sid) # "" THEN Fail(S, sessionExists(S, sid))
  ELSE IF sessionNotActive(S, t, sid) # "" THEN Fail(S, sessionNotActive(S, t, sid))
  ELSE IF newName = "" THEN Fail(S, "Candidate name cannot be empty")
  ELSE IF ~(cid > 0 /\ cid <= S.votingSessions[sid].candidateCount)
       THEN Fail(S, "Invalid candidate ID")
  ELSE IF ~S.votingSessions[sid].candidates[cid].isActive
       THEN Fail(S, "Candidate not active")
  ELSE
    LET S1 == [S EXCEPT !.votingSessions[sid].candidates[cid].name = newName]
    IN Done(S1, 0)

updateCandidate(S, sender, t, sid, cid, newName) ==
  IF onlyOwner(S, sender) # "" THEN Fail(S, onlyOwner(S, sender))
  ELSE IF sessionExists(S, sid) # "" THEN Fail(S, sessionExists(S, sid))
  ELSE IF sessionNotActive(S, t, sid) # "" THEN Fail(S, sessionNotActive(S, t, sid))
  ELSE IF newName = "" THEN Fail(S, "Candidate name cannot be empty")
  ELSE IF ~(cid > 0 /\ cid <= S.votingSessions[sid].candidateCount)
       THEN Fail(S, "Invalid candidate ID")
  ELSE IF ~S.votingSessions[sid].candidates[cid].isActive
       THEN Fail(S, "Candidate not active")
  ELSE
    LET S1 == [S EXCEPT !.votingSessions[sid].candidates[cid].name = newName]
    IN Done(Emit(S1, CandidateUpdated(sid, cid, newName)), 0)

\* Variant of removeCandidateFromSession: the sessionNotActive modifier is
\* missing.
removeCandidateFromSession_Unguarded(S, sender, t, sid, cid) ==
  IF onlyOwner(S, sender) # "" THEN Fail(S, onlyOwner(S, sender))
  ELSE IF sessionExists(S, sid) # "" THEN Fail(S, sessionExists(S, sid))
  ELSE IF ~(cid > 0 /\ cid <= S.votingSessions[sid].candidateCount)
       THEN Fail(S, "Invalid candidate ID")
  ELSE IF ~S.votingSessions[sid].candidates[cid].isActive
       THEN Fail(S, "Candidate already inactive")
  ELSE
    LET S1 == [S EXCEPT !.votingSessions[sid].candidates[cid].isActive = FALSE]
    IN Done(Emit(S1, CandidateRemoved(sid, cid)), 0)

\* Variant of removeCandidateFromSession: the candidate is deleted, its vote
\* count with it.
removeCandidateFromSession_Deletes(S, sender, t, sid, cid) ==
  IF onlyOwner(S, sender) # "" THEN Fail(S, onlyOwner(S, sender))
  ELSE IF sessionExists(S, sid) # "" THEN Fail(S, sessionExists(S, sid))
  ELSE IF sessionNotActive(S, t, sid) # "" THEN Fail(S, sessionNotActive(S, t, sid))
  ELSE IF ~(cid > 0 /\ cid <= S.votingSessions[sid].candidateCount)
       THEN Fail(S, "Invalid candidate ID")
  ELSE IF ~S.votingSessions[sid].candidates[cid].isActive
       THEN Fail(S, "Candidate already inactive")
  ELSE
    LET S1 == [S EXCEPT !.votingSessions[sid].candidates[cid] =
                           [ZeroCandidate EXCEPT !.id = cid]]
    IN Done(Emit(S1, CandidateRemoved(sid, cid)), 0)

\* Variant of removeCandidateFromSession: the removal also clears the
\* candidate's voteCount.
removeCandidateFromSession_DropsVotes(S, sender, t, sid, cid) ==
  IF onlyOwner(S, sender) # "" THEN Fail(S, onlyOwner(S, sender))
  ELSE IF sessionExists(S, sid) # "" THEN Fail(S, sessionExists(S, sid))
  ELSE IF sessionNotActive(S, t, sid) # "" THEN Fail(S, sessionNotActive(S, t, sid))
  ELSE IF ~(cid > 0 /\ cid <= S.votingSessions[sid].candidateCount)
       THEN Fail(S, "Invalid candidate ID")
  ELSE IF ~S.votingSessions[sid].candidates[cid].isActive
       THEN Fail(S, "Candidate already inactive")
  ELSE
    LET S1 == [S EXCEPT !.votingSessions[sid].candidates[cid].isActive = FALSE,
                        !.votingSessions[sid].candidates[cid].voteCount = 0]
    IN Done(Emit(S1, CandidateRemoved(sid, cid)), 0)

removeCandidateFromSession(S, sender, t, sid, cid) ==
  IF onlyOwner(S, sender) # "" THEN Fail(S, onlyOwner(S, sender))
  ELSE IF sessionExists(S, sid) # "" THEN Fail(S, sessionExists(S, sid))
  ELSE IF sessionNotActive(S, t, sid) # "" THEN Fail(S, sessionNotActive(S, t, sid))
  ELSE IF ~(cid > 0 /\ cid <= S.votingSessions[sid].candidateCount)
       THEN Fail(S, "Invalid candidate ID")
  ELSE IF ~S.votingSessions[sid].candidates[cid].isActive
       THEN Fail(S, "Candidate already inactive")
  ELSE
    LET S1 == [S EXCEPT !.votingSessions[sid].candidates[cid].isActive = FALSE]
    IN Done(Emit(S1, CandidateRemoved(sid, cid)), 0)

\* Variant of startSession: a session can still be started at its endTime.
startSession_InclusiveEnd(S, sender, t, sid) ==
  IF onlyOwner(S, sender) # "" THEN Fail(S, onlyOwner(S, sender))
  ELSE IF sessionExists(S, sid) # "" THEN Fail(S, sessionExists(S, sid))
  ELSE IF S.votingSessions[sid].isActive THEN Fail(S, "Session already active")
  ELSE IF ~(t >= S.votingSessions[sid].startTime)
       THEN Fail(S, "Session start time not reached")
  ELSE IF ~(t <= S.votingSessions[sid].endTime)
       THEN Fail(S, "Session end time passed")
  ELSE
    LET S1 == [S EXCEPT !.votingSessions[sid].isActive = TRUE]
    IN Done(Emit(S1, SessionStarted(sid)), 0)

\* Variant of startSession: the start time is not checked.
startSession_NoStartCheck(S, sender, t, sid) ==
  IF onlyOwner(S, sender) # "" THEN Fail(S, onlyOwner(S, sender))
  ELSE IF sessionExists(S, sid) # "" THEN Fail(S, sessionExists(S, sid))
  ELSE IF S.votingSessions[sid].isActive THEN Fail(S, "Session already active")
  ELSE IF ~(t < S.votingSessions[sid].endTime)
       THEN Fail(S, "Session end time passed")
  ELSE
    LET S1 == [S EXCEPT !.votingSessions[sid].isActive = TRUE]
    IN Done(Emit(S1, SessionStarted(sid)), 0)

\* Variant of startSession: a start clears the vote records of the session.
startSession_ClearsVotes(S, sender, t, sid) ==
  IF onlyOwner(S, sender) # "" THEN Fail(S, onlyOwner(S, sender))
  ELSE IF sessionExists(S, sid) # "" THEN Fail(S, sessionExists(S, sid))
  ELSE IF S.votingSessions[sid].isActive THEN Fail(S, "Session already active")
  ELSE IF ~(t >= S.votingSessions[sid].startTime)
       THEN Fail(S, "Session start time not reached")
  ELSE IF ~(t < S.votingSessions[sid].endTime)
       THEN Fail(S, "Session end time passed")
  ELSE
    LET S1 == [S EXCEPT !.votingSessions[sid].isActive = TRUE,
                        !.votingSessions[sid].hasVoted =
                           [a \in Address |-> FALSE]]
    IN Done(Emit(S1, SessionStarted(sid)), 0)

\* Variant of startSession: the end time is not checked.
startSession_NoEndCheck(S, sender, t, sid) ==
  IF onlyOwner(S, sender) # "" THEN Fail(S, onlyOwner(S, sender))
  ELSE IF sessionExists(S, sid) # "" THEN Fail(S, sessionExists(S, sid))
  ELSE IF S.votingSessions[sid].isActive THEN Fail(S, "Session already active")
  ELSE IF ~(t >= S.votingSessions[sid].startTime)
       THEN Fail(S, "Session start time not reached")
  ELSE
    LET S1 == [S EXCEPT !.votingSessions[sid].isActive = TRUE]
    IN Done(Emit(S1, SessionStarted(sid)), 0)

startSession(S, sender, t, sid) ==
  IF onlyOwner(S, sender) # "" THEN Fail(S, onlyOwner(S, sender))
  ELSE IF sessionExists(S, sid) # "" THEN Fail(S, sessionExists(S, sid))
  ELSE IF S.votingSessions[sid].isActive THEN Fail(S, "Session already active")
  ELSE IF ~(t >= S.votingSessions[sid].startTime)
       THEN Fail(S, "Session start time not reached")
  ELSE IF ~(t < S.votingSessions[sid].endTime)
       THEN Fail(S, "Session end time passed")
  ELSE
    LET S1 == [S EXCEPT !.votingSessions[sid].isActive = TRUE]
    IN Done(Emit(S1, SessionStarted(sid)), 0)

\* Variant of endSession: a session cannot be ended after its endTime.
endSession_WindowCheck(S, sender, t, sid) ==
  IF onlyOwner(S, sender) # "" THEN Fail(S, onlyOwner(S, sender))
  ELSE IF sessionExists(S, sid) # "" THEN Fail(S, sessionExists(S, sid))
  ELSE IF ~S.votingSessions[sid].isActive THEN Fail(S, "Session not active")
  ELSE IF ~(t <= S.votingSessions[sid].endTime)
       THEN Fail(S, "Session end time passed")
  ELSE
    LET S1 == [S EXCEPT !.votingSessions[sid].isActive = FALSE]
    IN Done(Emit(S1, SessionEnded(sid)), 0)

\* Variant of endSession: ending a session also clears its created flag.
endSession_ClearsCreated(S, sender, t, sid) ==
  IF onlyOwner(S, sender) # "" THEN Fail(S, onlyOwner(S, sender))
  ELSE IF sessionExists(S, sid) # "" THEN Fail(S, sessionExists(S, sid))
  ELSE IF ~S.votingSessions[sid].isActive THEN Fail(S, "Session not active")
  ELSE
    LET S1 == [S EXCEPT !.votingSessions[sid].isActive = FALSE,
                        !.votingSessions[sid].isCreated = FALSE]
    IN Done(Emit(S1, SessionEnded(sid)), 0)

\* Variant of endSession: ending a session closes its window at the clock
\* value of the call.
endSession_ClosesWindow(S, sender, t, sid) ==
  IF onlyOwner(S, sender) # "" THEN Fail(S, onlyOwner(S, sender))
  ELSE IF sessionExists(S, sid) # "" THEN Fail(S, sessionExists(S, sid))
  ELSE IF ~S.votingSessions[sid].isActive THEN Fail(S, "Session not active")
  ELSE
    LET S1 == [S EXCEPT !.votingSessions[sid].isActive = FALSE,
                        !.votingSessions[sid].endTime = t]
    IN Done(Emit(S1, SessionEnded(sid)), 0)

endSession(S, sender, t, sid) ==
  IF onlyOwner(S, sender) # "" THEN Fail(S, onlyOwner(S, sender))
  ELSE IF sessionExists(S, sid) # "" THEN Fail(S, sessionExists(S, sid))
  ELSE IF ~S.votingSessions[sid].isActive THEN Fail(S, "Session not active")
  ELSE
    LET S1 == [S EXCEPT !.votingSessions[sid].isActive = FALSE]
    IN Done(Emit(S1, SessionEnded(sid)), 0)

\* Variant of registerVoter: an already registered voter is registered again.
registerVoter_NoDuplicateCheck(S, sender, voter) ==
  IF onlyOwner(S, sender) # "" THEN Fail(S, onlyOwner(S, sender))
  ELSE IF voter = ZeroAddress THEN Fail(S, "Invalid voter address")
  ELSE
    LET S1 == [S EXCEPT !.registeredVoters[voter] = TRUE]
    IN Done(Emit(S1, VoterRegistered(voter)), 0)

\* Variant of registerVoter: the new entry replaces the registry.
registerVoter_Replaces(S, sender, voter) ==
  IF onlyOwner(S, sender) # "" THEN Fail(S, onlyOwner(S, sender))
  ELSE IF voter = ZeroAddress THEN Fail(S, "Invalid voter address")
  ELSE IF S.registeredVoters[voter] THEN Fail(S, "Voter already registered")
  ELSE
    LET S1 == [S EXCEPT !.registeredVoters = [a \in Address |-> a = voter]]
    IN Done(Emit(S1, VoterRegistered(voter)), 0)

registerVoter(S, sender, voter) ==
  IF onlyOwner(S, sender) # "" THEN Fail(S, onlyOwner(S, sender))
  ELSE IF voter = ZeroAddress THEN Fail(S, "Invalid voter address")
  ELSE IF S.registeredVoters[voter] THEN Fail(S, "Voter already registered")
  ELSE
    LET S1 == [S EXCEPT !.registeredVoters[voter] = TRUE]
    IN Done(Emit(S1, VoterRegistered(voter)), 0)

\* Variant of RegisterEach: an entry that is already registered is registered
\* and announced again.
RECURSIVE RegisterEach_NoSkip(_, _, _)
RegisterEach_NoSkip(S, voters, i) ==
  IF i > Len(voters) THEN S
  ELSE IF voters[i] # ZeroAddress
       THEN RegisterEach_NoSkip(
              Emit([S EXCEPT !.registeredVoters[voters[i]] = TRUE],
                   VoterRegistered(voters[i])),
              voters, i + 1)
       ELSE RegisterEach_NoSkip(S, voters, i + 1)

\* The loop of registerMultipleVoters from index i on.
RECURSIVE RegisterEach(_, _, _)
RegisterEach(S, voters, i) ==
  IF i > Len(voters) THEN S
  ELSE IF ~S.registeredVoters[voters[i]] /\ voters[i] # ZeroAddress
       THEN RegisterEach(
              Emit([S EXCEPT !.registeredVoters[voters[i]] = TRUE],
                   VoterRegistered(voters[i])),
              voters, i + 1)
       ELSE RegisterEach(S, voters, i + 1)

registerMultipleVoters(S, sender, voters) ==
  IF onlyOwner(S, sender) # "" THEN Fail(S, onlyOwner(S, sender))
  ELSE Done(RegisterEach(S, voters, 1), 0)

(* --------------------------- voter functions -------------------------- *)

\* Variant of registerSelf: a registered caller registers again.
registerSelf_NoCheck(S, sender) ==
  LET S1 == [S EXCEPT !.registeredVoters[sender] = TRUE]
  IN Done(Emit(S1, VoterRegistered(sender)), 0)

registerSelf(S, sender) ==
  IF S.registeredVoters[sender] THEN Fail(S, "Already registered")
  ELSE
    LET S1 == [S EXCEPT !.registeredVoters[sender] = TRUE]
    IN Done(Emit(S1, VoterRegistered(sender)), 0)

\* Variant of vote: totalVotes is not incremented.
vote_NoTotal(S, sender, t, sid, cid) ==
  IF sessionExists(S, sid) # "" THEN Fail(S, sessionExists(S, sid))
  ELSE IF ~S.registeredVoters[sender] THEN Fail(S, "Not registered to vote")
  ELSE IF ~isSessionActive(S, t, sid) THEN Fail(S, "Session not active")
  ELSE IF S.votingSessions[sid].hasVoted[sender]
       THEN Fail(S, "Already voted in this session")
  ELSE IF ~(cid > 0 /\ cid <= S.votingSessions[sid].candidateCount)
       THEN Fail(S, "Invalid candidate")
  ELSE IF ~S.votingSessions[sid].candidates[cid].isActive
       THEN Fail(S, "Candidate not active")
  ELSE
    LET S1 == [S EXCEPT !.votingSessions[sid].hasVoted[sender] = TRUE]
        S2 == [S1 EXCEPT !.votingSessions[sid].voterChoice[sender] = cid]
        S3 == [S2 EXCEPT !.votingSessions[sid].candidates[cid].voteCount = @ + 1]
    IN Done(Emit(S3, VoteCast(sid, sender, cid)), 0)

\* Variant of vote: the require on hasVoted is missing.
vote_NoVotedCheck(S, sender, t, sid, cid) ==
  IF sessionExists(S, sid) # "" THEN Fail(S, sessionExists(S, sid))
  ELSE IF ~S.registeredVoters[sender] THEN Fail(S, "Not registered to vote")
  ELSE IF ~isSessionActive(S, t, sid) THEN Fail(S, "Session not active")
  ELSE IF ~(cid > 0 /\ cid <= S.votingSessions[sid].candidateCount)
       THEN Fail(S, "Invalid candidate")
  ELSE IF ~S.votingSessions[sid].candidates[cid].isActive
       THEN Fail(S, "Candidate not active")
  ELSE
    LET S1 == [S EXCEPT !.votingSessions[sid].hasVoted[sender] = TRUE]
        S2 == [S1 EXCEPT !.votingSessions[sid].voterChoice[sender] = cid]
        S3 == [S2 EXCEPT !.votingSessions[sid].candidates[cid].voteCount = @ + 1]
        S4 == [S3 EXCEPT !.votingSessions[sid].totalVotes = @ + 1]
    IN Done(Emit(S4, VoteCast(sid, sender, cid)), 0)

\* Variant of vote: the choice is not recorded.
vote_NoChoice(S, sender, t, sid, cid) ==
  IF sessionExists(S, sid) # "" THEN Fail(S, sessionExists(S, sid))
  ELSE IF ~S.registeredVoters[sender] THEN Fail(S, "Not registered to vote")
  ELSE IF ~isSessionActive(S, t, sid) THEN Fail(S, "Session not active")
  ELSE IF S.votingSessions[sid].hasVoted[sender]
       THEN Fail(S, "Already voted in this session")
  ELSE IF ~(cid > 0 /\ cid <= S.votingSessions[sid].candidateCount)
       THEN Fail(S, "Invalid candidate")
  ELSE IF ~S.votingSessions[sid].candidates[cid].isActive
       THEN Fail(S, "Candidate not active")
  ELSE
    LET S1 == [S EXCEPT !.votingSessions[sid].hasVoted[sender] = TRUE]
        S3 == [S1 EXCEPT !.votingSessions[sid].candidates[cid].voteCount = @ + 1]
        S4 == [S3 EXCEPT !.votingSessions[sid].totalVotes = @ + 1]
    IN Done(Emit(S4, VoteCast(sid, sender, cid)), 0)

\* Variant of vote: the require on the candidate's active flag is missing.
vote_NoActiveCheck(S, sender, t, sid, cid) ==
  IF sessionExists(S, sid) # "" THEN Fail(S, sessionExists(S, sid))
  ELSE IF ~S.registeredVoters[sender] THEN Fail(S, "Not registered to vote")
  ELSE IF ~isSessionActive(S, t, sid) THEN Fail(S, "Session not active")
  ELSE IF S.votingSessions[sid].hasVoted[sender]
       THEN Fail(S, "Already voted in this session")
  ELSE IF ~(cid > 0 /\ cid <= S.votingSessions[sid].candidateCount)
       THEN Fail(S, "Invalid candidate")
  ELSE
    LET S1 == [S EXCEPT !.votingSessions[sid].hasVoted[sender] = TRUE]
        S2 == [S1 EXCEPT !.votingSessions[sid].voterChoice[sender] = cid]
        S3 == [S2 EXCEPT !.votingSessions[sid].candidates[cid].voteCount = @ + 1]
        S4 == [S3 EXCEPT !.votingSessions[sid].totalVotes = @ + 1]
    IN Done(Emit(S4, VoteCast(sid, sender, cid)), 0)

\* Variant of vote: the vote record is kept for the voter in every session.
vote_GlobalRecord(S, sender, t, sid, cid) ==
  IF sessionExists(S, sid) # "" THEN Fail(S, sessionExists(S, sid))
  ELSE IF ~S.registeredVoters[sender] THEN Fail(S, "Not registered to vote")
  ELSE IF ~isSessionActive(S, t, sid) THEN Fail(S, "Session not active")
  ELSE IF S.votingSessions[sid].hasVoted[sender]
       THEN Fail(S, "Already voted in this session")
  ELSE IF ~(cid > 0 /\ cid <= S.votingSessions[sid].candidateCount)
       THEN Fail(S, "Invalid candidate")
  ELSE IF ~S.votingSessions[sid].candidates[cid].isActive
       THEN Fail(S, "Candidate not active")
  ELSE
    LET S1 == [S EXCEPT !.votingSessions =
                 [s \in 1..MaxSessions |->
                    [S.votingSessions[s] EXCEPT !.hasVoted[sender] = TRUE]]]
        S2 == [S1 EXCEPT !.votingSessions[sid].voterChoice[sender] = cid]
        S3 == [S2 EXCEPT !.votingSessions[sid].candidates[cid].voteCount = @ + 1]
        S4 == [S3 EXCEPT !.votingSessions[sid].totalVotes = @ + 1]
    IN Done(Emit(S4, VoteCast(sid, sender, cid)), 0)

\* Variant of vote: the session's flag is tested in place of isSessionActive.
vote_FlagOnly(S, sender, t, sid, cid) ==
  IF sessionExists(S, sid) # "" THEN Fail(S, sessionExists(S, sid))
  ELSE IF ~S.registeredVoters[sender] THEN Fail(S, "Not registered to vote")
  ELSE IF ~S.votingSessions[sid].isActive THEN Fail(S, "Session not active")
  ELSE IF S.votingSessions[sid].hasVoted[sender]
       THEN Fail(S, "Already voted in this session")
  ELSE IF ~(cid > 0 /\ cid <= S.votingSessions[sid].candidateCount)
       THEN Fail(S, "Invalid candidate")
  ELSE IF ~S.votingSessions[sid].candidates[cid].isActive
       THEN Fail(S, "Candidate not active")
  ELSE
    LET S1 == [S EXCEPT !.votingSessions[sid].hasVoted[sender] = TRUE]
        S2 == [S1 EXCEPT !.votingSessions[sid].voterChoice[sender] = cid]
        S3 == [S2 EXCEPT !.votingSessions[sid].candidates[cid].voteCount = @ + 1]
        S4 == [S3 EXCEPT !.votingSessions[sid].totalVotes = @ + 1]
    IN Done(Emit(S4, VoteCast(sid, sender, cid)), 0)

\* Variant of vote: the caller's registration is checked before the
\* existence of the session.
vote_RegisteredFirst(S, sender, t, sid, cid) ==
  IF ~S.registeredVoters[sender] THEN Fail(S, "Not registered to vote")
  ELSE IF sessionExists(S, sid) # "" THEN Fail(S, sessionExists(S, sid))
  ELSE IF ~isSessionActive(S, t, sid) THEN Fail(S, "Session not active")
  ELSE IF S.votingSessions[sid].hasVoted[sender]
       THEN Fail(S, "Already voted in this session")
  ELSE IF ~(cid > 0 /\ cid <= S.votingSessions[sid].candidateCount)
       THEN Fail(S, "Invalid candidate")
  ELSE IF ~S.votingSessions[sid].candidates[cid].isActive
       THEN Fail(S, "Candidate not active")
  ELSE
    LET S1 == [S EXCEPT !.votingSessions[sid].hasVoted[sender] = TRUE]
        S2 == [S1 EXCEPT !.votingSessions[sid].voterChoice[sender] = cid]
        S3 == [S2 EXCEPT !.votingSessions[sid].candidates[cid].voteCount = @ + 1]
        S4 == [S3 EXCEPT !.votingSessions[sid].totalVotes = @ + 1]
    IN Done(Emit(S4, VoteCast(sid, sender, cid)), 0)

vote(S, sender, t, sid, cid) ==
  IF sessionExists(S, sid) # "" THEN Fail(S, sessionExists(S, sid))
  ELSE IF ~S.registeredVoters[sender] THEN Fail(S, "Not registered to vote")
  ELSE IF ~isSessionActive(S, t, sid) THEN Fail(S, "Session not active")
  ELSE IF S.votingSessions[sid].hasVoted[sender]
       THEN Fail(S, "Already voted in this session")
  ELSE IF ~(cid > 0 /\ cid <= S.votingSessions[sid].candidateCount)
       THEN Fail(S, "Invalid candidate")
  ELSE IF ~S.votingSessions[sid].candidates[cid].isActive
       THEN Fail(S, "Candidate not active")
  ELSE
    LET S1 == [S EXCEPT !.votingSessions[sid].hasVoted[sender] = TRUE]
        S2 == [S1 EXCEPT !.votingSessions[sid].voterChoice[sender] = cid]
        S3 == [S2 EXCEPT !.votingSessions[sid].candidates[cid].voteCount = @ + 1]
        S4 == [S3 EXCEPT !.votingSessions[sid].totalVotes = @ + 1]
    IN Done(Emit(S4, VoteCast(sid, sender, cid)), 0)

\* Variant of WinnerScan: a candidate level with the running maximum is not
\* counted.
RECURSIVE WinnerScan_NoTieCount(_, _, _, _, _)
WinnerScan_NoTieCount(sess, i, maxVotes, winnerId, tieCount) ==
  IF i > sess.candidateCount
  THEN [maxVotes |-> maxVotes, winnerId |-> winnerId, tieCount |-> tieCount]
  ELSE IF sess.candidates[i].isActive /\ sess.candidates[i].voteCount > maxVotes
       THEN WinnerScan_NoTieCount(sess, i + 1, sess.candidates[i].voteCount, i, 1)
       ELSE WinnerScan_NoTieCount(sess, i + 1, maxVotes, winnerId, tieCount)

\* Variant of WinnerScan: the isActive test is missing.
RECURSIVE WinnerScan_CountsInactive(_, _, _, _, _)
WinnerScan_CountsInactive(sess, i, maxVotes, winnerId, tieCount) ==
  IF i > sess.candidateCount
  THEN [maxVotes |-> maxVotes, winnerId |-> winnerId, tieCount |-> tieCount]
  ELSE IF sess.candidates[i].voteCount > maxVotes
       THEN WinnerScan_CountsInactive(sess, i + 1,
                                      sess.candidates[i].voteCount, i, 1)
       ELSE IF sess.candidates[i].voteCount = maxVotes /\ maxVotes > 0
            THEN WinnerScan_CountsInactive(sess, i + 1, maxVotes, winnerId,
                                           tieCount + 1)
            ELSE WinnerScan_CountsInactive(sess, i + 1, maxVotes, winnerId,
                                           tieCount)

\* The loop of getSessionWinner from candidate i on, with its three locals.
RECURSIVE WinnerScan(_, _, _, _, _)
WinnerScan(sess, i, maxVotes, winnerId, tieCount) ==
  IF i > sess.candidateCount
  THEN [maxVotes |-> maxVotes, winnerId |-> winnerId, tieCount |-> tieCount]
  ELSE IF sess.candidates[i].isActive
       THEN IF sess.candidates[i].voteCount > maxVotes
            THEN WinnerScan(sess, i + 1, sess.candidates[i].voteCount, i, 1)
            ELSE IF sess.candidates[i].voteCount = maxVotes /\ maxVotes > 0
                 THEN WinnerScan(sess, i + 1, maxVotes, winnerId, tieCount + 1)
                 ELSE WinnerScan(sess, i + 1, maxVotes, winnerId, tieCount)
       ELSE WinnerScan(sess, i + 1, maxVotes, winnerId, tieCount)

\* The triple getSessionWinner returns.
WinnerResult(name, votes, tie) ==
  [winnerName |-> name, winnerVotes |-> votes, isTie |-> tie]

\* The first loop of getAllActiveSessions from id i on: the number of active
\* sessions.
RECURSIVE CountActive(_, _, _, _)
CountActive(S, t, i, activeCount) ==
  IF i > S.sessionCount THEN activeCount
  ELSE IF isSessionActive(S, t, i)
       THEN CountActive(S, t, i + 1, activeCount + 1)
       ELSE CountActive(S, t, i + 1, activeCount)

\* Variant of FillActive: a session is listed when its flag is set.
RECURSIVE FillActive_FlagOnly(_, _, _, _, _)
FillActive_FlagOnly(S, t, i, activeSessions, index) ==
  IF i > S.sessionCount THEN activeSessions
  ELSE IF S.votingSessions[i].isActive /\ index < Len(activeSessions)
       THEN FillActive_FlagOnly(S, t, i + 1,
                                [activeSessions EXCEPT ![index + 1] = i],
                                index + 1)
       ELSE FillActive_FlagOnly(S, t, i + 1, activeSessions, index)

\* The second loop of getAllActiveSessions from id i on: the array, which
\* Solidity indexes from 0 and this model from 1, is filled at index.
RECURSIVE FillActive(_, _, _, _, _)
FillActive(S, t, i, activeSessions, index) ==
  IF i > S.sessionCount THEN activeSessions
  ELSE IF isSessionActive(S, t, i)
       THEN FillActive(S, t, i + 1,
                       [activeSessions EXCEPT ![index + 1] = i], index + 1)
       ELSE FillActive(S, t, i + 1, activeSessions, index)

getAllActiveSessions(S, t) ==
  LET activeCount == CountActive(S, t, 1, 0)
      activeSessions == [k \in 1..activeCount |-> 0]
  IN Done(S, FillActive(S, t, 1, activeSessions, 0))

\* The loop of getAllSessions from id i on: allSessions[i - 1] = i, with the
\* array indexed from 1 here.
RECURSIVE FillAll(_, _, _)
FillAll(S, i, allSessions) ==
  IF i > S.sessionCount THEN allSessions
  ELSE FillAll(S, i + 1, [allSessions EXCEPT ![i] = i])

getAllSessions(S) ==
  Done(S, FillAll(S, 1, [k \in 1..S.sessionCount |-> 0]))

\* Variant of getSessionWinner: the early return on totalVotes = 0 is missing.
getSessionWinner_NoEarlyReturn(S, sid) ==
  IF sessionExists(S, sid) # "" THEN Fail(S, sessionExists(S, sid))
  ELSE
    LET session == S.votingSessions[sid]
        w == WinnerScan(session, 1, 0, 0, 0)
    IN IF w.winnerId > 0
       THEN Done(S, WinnerResult(session.candidates[w.winnerId].name,
                                 w.maxVotes, w.tieCount > 1))
       ELSE Done(S, WinnerResult("No winner", 0, FALSE))

getSessionWinner(S, sid) ==
  IF sessionExists(S, sid) # "" THEN Fail(S, sessionExists(S, sid))
  ELSE
    LET session == S.votingSessions[sid]
        w == WinnerScan(session, 1, 0, 0, 0)
    IN IF session.totalVotes = 0
       THEN Done(S, WinnerResult("No votes cast", 0, FALSE))
       ELSE IF w.winnerId > 0
            THEN Done(S, WinnerResult(session.candidates[w.winnerId].name,
                                      w.maxVotes, w.tieCount > 1))
            ELSE Done(S, WinnerResult("No winner", 0, FALSE))

getSession(S, sid) ==
  IF sessionExists(S, sid) # "" THEN Fail(S, sessionExists(S, sid))
  ELSE
    LET session == S.votingSessions[sid]
    IN Done(S, [sessionName |-> session.sessionName,
                startTime |-> session.startTime,
                endTime |-> session.endTime,
                isActive |-> session.isActive,
                candidateCount |-> session.candidateCount,
                totalVotes |-> session.totalVotes])

\* The first loop of getSessionCandidates from candidate i on: the number of
\* active candidates.
RECURSIVE CountActiveCandidates(_, _, _)
CountActiveCandidates(session, i, activeCount) ==
  IF i > session.candidateCount THEN activeCount
  ELSE IF session.candidates[i].isActive
       THEN CountActiveCandidates(session, i + 1, activeCount + 1)
       ELSE CountActiveCandidates(session, i + 1, activeCount)

\* The second loop of getSessionCandidates from candidate i on: the array,
\* indexed from 1 here, is filled at index.
RECURSIVE FillCandidates(_, _, _, _)
FillCandidates(session, i, candidates, index) ==
  IF i > session.candidateCount THEN candidates
  ELSE IF session.candidates[i].isActive
       THEN FillCandidates(session, i + 1,
                           [candidates EXCEPT ![index + 1] = session.candidates[i]],
                           index + 1)
       ELSE FillCandidates(session, i + 1, candidates, index)

getSessionCandidates(S, sid) ==
  IF sessionExists(S, sid) # "" THEN Fail(S, sessionExists(S, sid))
  ELSE
    LET session == S.votingSessions[sid]
        activeCount == CountActiveCandidates(session, 1, 0)
        candidates == [k \in 1..activeCount |-> ZeroCandidate]
    IN Done(S, FillCandidates(session, 1, candidates, 0))

\* Variant of hasVotedInSession: the sessionExists modifier is missing, and
\* the mapping yields its default for an id without a session.
hasVotedInSession_NoModifier(S, voter, sid) ==
  IF sid \notin 1..MaxSessions THEN Done(S, FALSE)
  ELSE Done(S, S.votingSessions[sid].hasVoted[voter])

hasVotedInSession(S, voter, sid) ==
  IF sessionExists(S, sid) # "" THEN Fail(S, sessionExists(S, sid))
  ELSE Done(S, S.votingSessions[sid].hasVoted[voter])

\* Variant of getVoterChoice: the require on hasVoted is missing.
getVoterChoice_NoRequire(S, voter, sid) ==
  IF sessionExists(S, sid) # "" THEN Fail(S, sessionExists(S, sid))
  ELSE Done(S, S.votingSessions[sid].voterChoice[voter])

getVoterChoice(S, voter, sid) ==
  IF sessionExists(S, sid) # "" THEN Fail(S, sessionExists(S, sid))
  ELSE IF ~S.votingSessions[sid].hasVoted[voter]
       THEN Fail(S, "Voter has not voted in this session")
  ELSE Done(S, S.votingSessions[sid].voterChoice[voter])

(* ----------------------------- owner dashboard ------------------------- *)

\* A ledger time (seconds) as the Date the dashboard makes of it
\* (milliseconds): new Date(Number(t) * 1000).
ToDate(t) == t * 1000

\* The entry OwnerPortal.loadSessions builds for session sid at clock value
\* t: the metadata from getSession, isActive from isSessionActive.
loadSessions(S, t, sid) ==
  LET sessionDetails == getSession(S, sid).ret
      isActive == isSessionActive(S, t, sid)
  IN [id |-> sid,
      name |-> sessionDetails.sessionName,
      startTime |-> ToDate(sessionDetails.startTime),
      endTime |-> ToDate(sessionDetails.endTime),
      isActive |-> isActive,
      candidateCount |-> sessionDetails.candidateCount,
      totalVotes |-> sessionDetails.totalVotes]

\* getSessionCategory of SessionManager, with the Date d for new Date().
getSessionCategory(session, d) ==
  IF d < session.startTime THEN "pending"
  ELSE IF d >= session.startTime /\ d <= session.endTime /\ session.isActive
       THEN "active"
  ELSE IF d > session.endTime /\ session.isActive THEN "expired"
  ELSE IF d > session.endTime /\ ~session.isActive THEN "completed"
  ELSE IF d >= session.startTime /\ d <= session.endTime /\ ~session.isActive
       THEN "inactive"
  ELSE "inactive"

canEndSession(session, d) ==
  LET category == getSessionCategory(session, d)
  IN category = "active" \/ category = "expired"

(* ----------------------------- transitions ---------------------------- *)

\* The modelled candidate table of session sid can take one more candidate.
HasRoom(sid) ==
  sid \in 1..sessionCount => votingSessions[sid].candidateCount < MaxCandidates


\* The candidate collection of a session: how many candidates it has and the
\* id, name and active flag of each (the vote counts are the tally).
Collection(sess) ==
  [count |-> sess.candidateCount,
   cands |-> [c \in 1..MaxCandidates |->
                [id |-> sess.candidates[c].id, name |-> sess.candidates[c].name,
                 isActive |-> sess.candidates[c].isActive]]]

\* frozen once the storage is S and the clock t, from its value f before.
Freeze(S, t, f) ==
  [s \in 1..MaxSessions |->
     IF isSessionActive(S, t, s) THEN <<Collection(S.votingSessions[s])>>
     ELSE f[s]]

\* One mined transaction.  A call that fails is reverted: storage and log stay
\* as they were (Transact), and with them every variable.  A call that
\* succeeds installs the storage and the log it ended in.
Commit(r) ==
  IF ~r.ok THEN UNCHANGED vars
  ELSE
    /\ Len(r.st.log) <= logCap
    /\ LET S2 == Transact(Ledger, r)
       IN /\ sessionCount' = S2.sessionCount
          /\ votingSessions' = S2.votingSessions
          /\ registeredVoters' = S2.registeredVoters
          /\ owner' = S2.owner
          /\ log' = S2.log
          /\ frozen' = Freeze(S2, now, frozen)
    /\ UNCHANGED <<now, logCap>>

Init ==
  /\ owner = Deployer
  /\ sessionCount = 0
  /\ votingSessions = [s \in 1..MaxSessions |-> ZeroSession]
  /\ registeredVoters = [a \in Address |-> a = Deployer]
  /\ now = 0
  /\ log = <<>>
  /\ logCap = MaxLog
  /\ frozen = [s \in 1..MaxSessions |-> <<>>]

\* block.timestamp of the next block: it never decreases.
Tick ==
  /\ now < MaxTime
  /\ now' = now + 1
  /\ frozen' = Freeze(Ledger, now + 1, [s \in 1..MaxSessions |-> <<>>])
  /\ UNCHANGED <<sessionCount, votingSessions, registeredVoters, owner, log,
                 logCap>>

CreateSession ==
  \E sender \in Callers, name \in SessionNames, w \in Windows,
     names \in NameLists :
    /\ sessionCount < MaxSessions
    /\ Fits(names)
    /\ Commit(createSession(Ledger, sender, now, name, w[1], w[2], names))

AddCandidate ==
  \E sender \in Callers, sid \in SessionIds, name \in CandidateNames :
    /\ HasRoom(sid)
    /\ Commit(addCandidateToSession(Ledger, sender, now, sid, name))

UpdateCandidate ==
  \E sender \in Callers, sid \in SessionIds, cid \in CandidateIds,
     newName \in NewNames :
    Commit(updateCandidate(Ledger, sender, now, sid, cid, newName))

RemoveCandidate ==
  \E sender \in Callers, sid \in SessionIds, cid \in CandidateIds :
    Commit(removeCandidateFromSession(Ledger, sender, now, sid, cid))

StartSession ==
  \E sender \in Callers, sid \in SessionIds :
    Commit(startSession(Ledger, sender, now, sid))

EndSession ==
  \E sender \in Callers, sid \in SessionIds :
    Commit(endSession(Ledger, sender, now, sid))

RegisterVoter ==
  \E sender \in Callers, voter \in Address :
    Commit(registerVoter(Ledger, sender, voter))

RegisterMultipleVoters ==
  \E sender \in Callers, voters \in AddressLists :
    Commit(registerMultipleVoters(Ledger, sender, voters))

RegisterSelf ==
  \E sender \in Callers :
    Commit(registerSelf(Ledger, sender))

Vote ==
  \E sender \in Callers, sid \in SessionIds, cid \in CandidateIds :
    Commit(vote(Ledger, sender, now, sid, cid))

Next ==
  \/ Tick
  \/ CreateSession
  \/ AddCandidate
  \/ UpdateCandidate
  \/ RemoveCandidate
  \/ StartSession
  \/ EndSession
  \/ RegisterVoter
  \/ RegisterMultipleVoters
  \/ RegisterSelf
  \/ Vote

Spec == Init /\ [][Next]_vars

(* ------------- runs from a ledger with a session under way ------------ *)

\* The ledger the constructor leaves.
Genesis ==
  [sessionCount |-> 0,
   votingSessions |-> [s \in 1..MaxSessions |-> ZeroSession],
   registeredVoters |-> [a \in Address |-> a = Deployer],
   owner |-> Deployer, log |-> <<>>]

\* The ledger after the deployer, at clock value 0, created the session
\* "Election" with the window [0, 1] and the candidates Alice and Bob ...
Seed1 ==
  Transact(Genesis,
           createSession(Genesis, Deployer, 0, "Election", 0, 1,
                         <<"Alice", "Bob">>))

\* ... and started it.
Seed == Transact(Seed1, startSession(Seed1, Deployer, 0, 1))

\* The runs that begin in that ledger at clock value 0, followed for MaxMore
\* further events.
InitSeeded ==
  /\ owner = Seed.owner
  /\ sessionCount = Seed.sessionCount
  /\ votingSessions = Seed.votingSessions
  /\ registeredVoters = Seed.registeredVoters
  /\ now = 0
  /\ log = Seed.log
  /\ logCap = Len(Seed.log) + MaxMore
  /\ frozen = Freeze(Seed, 0, [s \in 1..MaxSessions |-> <<>>])

SpecSeeded == InitSeeded /\ [][Next]_vars

(* ------------------- runs in which the clock advances ------------------ *)

\* The runs from the started session in which the clock is not held back
\* for ever: block.timestamp grows from block to block, up to the horizon
\* MaxTime of the model.
SpecSeededClock == InitSeeded /\ [][Next]_vars /\ WF_vars(Tick)

(* ------------- runs from a ledger with a vote already cast ------------ *)

\* The ledger after the deployer, at clock value 0, created the session
\* "Election" with the window [0, 2] and the candidates Alice and Bob ...
Wide1 ==
  Transact(Genesis,
           createSession(Genesis, Deployer, 0, "Election", 0, 2,
                         <<"Alice", "Bob">>))

\* ... started it ...
Wide2 == Transact(Wide1, startSession(Wide1, Deployer, 0, 1))

\* ... registered the voter v1 ...
Wide3 == Transact(Wide2, registerVoter(Wide2, Deployer, "v1"))

\* ... and voted for candidate 1 (Alice).
Tallied == Transact(Wide3, vote(Wide3, Deployer, 0, 1, 1))

\* The runs that begin in that ledger at clock value 0, followed for MaxMore
\* further events.
InitTallied ==
  /\ owner = Tallied.owner
  /\ sessionCount = Tallied.sessionCount
  /\ votingSessions = Tallied.votingSessions
  /\ registeredVoters = Tallied.registeredVoters
  /\ now = 0
  /\ log = Tallied.log
  /\ logCap = Len(Tallied.log) + MaxMore
  /\ frozen = Freeze(Tallied, 0, [s \in 1..MaxSessions |-> <<>>])

SpecTallied == InitTallied /\ [][Next]_vars

(* ----------- runs from a ledger with a session yet to open ------------ *)

\* The window of that session: it opens at TraceStart, after the clock value
\* 0 of its creation, and closes at TraceEnd.
TraceStart == 1
TraceEnd == 2

\* The ledger after the deployer, at clock value 0, created the session
\* "Election" with that window and the candidates Alice and Bob.
Windowed ==
  Transact(Genesis,
           createSession(Genesis, Deployer, 0, "Election", TraceStart,
                         TraceEnd, <<"Alice", "Bob">>))

\* The runs that begin in that ledger at clock value 0, followed for MaxMore
\* further events.
InitWindowed ==
  /\ owner = Windowed.owner
  /\ sessionCount = Windowed.sessionCount
  /\ votingSessions = Windowed.votingSessions
  /\ registeredVoters = Windowed.registeredVoters
  /\ now = 0
  /\ log = Windowed.log
  /\ logCap = Len(Windowed.log) + MaxMore
  /\ frozen = Freeze(Windowed, 0, [s \in 1..MaxSessions |-> <<>>])

SpecWindowed == InitWindowed /\ [][Next]_vars

(* ---------------------- vocabulary of the claims ---------------------- *)

\* The error kinds of the specification (its section 7) as sets of the
\* contract's require messages.
AuthErrors == {"Only owner can perform this action", "Not registered to vote"}
ValidationErrors ==
  {"Invalid time range", "At least one candidate required",
   "Session name cannot be empty", "Candidate name cannot be empty",
   "Invalid candidate ID", "Invalid candidate", "Candidate not active",
   "Invalid voter address"}
StateErrors ==
  {"Session does not exist", "Session not found", "Cannot modify active session",
   "Session already active", "Session start time not reached",
   "Session end time passed", "Session not active", "Voter already registered",
   "Already registered", "Already voted in this session",
   "Candidate already inactive", "Voter has not voted in this session"}

\* Pairs (startTime, endTime) handed to createSession in the statements about
\* it (wider than what the action draws): proper windows, empty and reversed
\* ones.  createSession compares the two with each other only (part_000:72),
\* never with block.timestamp.
TimePairs == {<<0, 1>>, <<0, 2>>, <<1, 2>>, <<1, 1>>, <<2, 1>>, <<2, 2>>}

Created == 1..sessionCount

RECURSIVE SumVoteCount(_, _)
SumVoteCount(sess, n) ==
  IF n = 0 THEN 0 ELSE sess.candidates[n].voteCount + SumVoteCount(sess, n - 1)

Voted(sess) == {a \in Address : sess.hasVoted[a]}

\* The positions of the log that hold an event of type ty for session s.
EventsOf(ty, s) ==
  {i \in 1..Len(log) : log[i].type = ty /\ log[i].sessionId = s}

VoteCastBy(s, v) == {i \in EventsOf("VoteCast", s) : log[i].voter = v}

\* A rejected call: it failed and the ledger after it is the ledger before it.
Rejected(r) == ~r.ok /\ Transact(Ledger, r) = Ledger

(* -------------------------------- C1 ---------------------------------- *)

\* C1: in every reachable state, for every created session, totalVotes equals
\* the sum of voteCount over all of its candidates (active or deactivated) and
\* equals the number of identities with hasVoted = true in that session.
C1_TallyConsistent ==
  \A s \in Created :
    LET sess == votingSessions[s]
    IN /\ sess.isCreated
       /\ sess.totalVotes = SumVoteCount(sess, sess.candidateCount)
       /\ sess.totalVotes = Cardinality(Voted(sess))

\* A session with a vote cast whose voted-for candidate has been deactivated.
C1_Witness ==
  \E s \in Created : \E c \in 1..votingSessions[s].candidateCount :
    /\ votingSessions[s].totalVotes >= 1
    /\ votingSessions[s].candidates[c].voteCount >= 1
    /\ ~votingSessions[s].candidates[c].isActive

(* -------------------------------- C2 ---------------------------------- *)

\* What a vote of v in s naming c does in the current state.
VoteNow(v, s, c) == vote(Ledger, v, now, s, c)

\* C2 as stated: at most one vote of a voter in a session succeeds, and every
\* later vote of that voter in that session is rejected with the already-voted
\* error, whichever candidate it names.
C2_RepeatVoteAlreadyVoted ==
  \A s \in Created : \A v \in Callers :
    /\ Cardinality(VoteCastBy(s, v)) <= 1
    /\ votingSessions[s].hasVoted[v] =>
         \A c \in CandidateIds :
           /\ Rejected(VoteNow(v, s, c))
           /\ VoteNow(v, s, c).err = "Already voted in this session"

\* C2 amended: at most one vote of a voter in a session succeeds; every later
\* vote of that voter in that session is rejected with a StateError and changes
\* nothing, whichever candidate it names: the already-voted error while the
\* session is active, the session-not-active error once it is not.
C2_RepeatVoteRejected ==
  \A s \in Created : \A v \in Callers :
    /\ Cardinality(VoteCastBy(s, v)) <= 1
    /\ votingSessions[s].hasVoted[v] <=> Cardinality(VoteCastBy(s, v)) = 1
    /\ votingSessions[s].hasVoted[v] =>
         \A c \in CandidateIds :
           /\ Rejected(VoteNow(v, s, c))
           /\ VoteNow(v, s, c).err \in StateErrors
           /\ VoteNow(v, s, c).err =
                IF isSessionActive(Ledger, now, s)
                THEN "Already voted in this session"
                ELSE "Session not active"

\* A voter has voted in a session that is still open and offers two active
\* candidates, so that a second vote could name the other one.
C2_Witness ==
  \E s \in Created : \E v \in Callers :
    /\ votingSessions[s].hasVoted[v]
    /\ isSessionActive(Ledger, now, s)
    /\ \A c \in 1..2 : /\ c <= votingSessions[s].candidateCount
                       /\ votingSessions[s].candidates[c].isActive
    /\ ~VoteNow(v, s, 3 - votingSessions[s].voterChoice[v]).ok

(* -------------------------------- C3 ---------------------------------- *)

\* The active flag of session s is set and the clock is past its endTime.
Lapsed(s) ==
  /\ s \in Created
  /\ votingSessions[s].isActive
  /\ now > votingSessions[s].endTime

\* C3 as stated: whoever calls, a vote on a session for which isSessionActive
\* is false, in particular one whose active flag is set and whose window has
\* lapsed, is rejected with a StateError.
C3_InactiveVoteStateError ==
  \A s \in SessionIds : \A v \in Callers : \A c \in CandidateIds :
    (~isSessionActive(Ledger, now, s) \/ Lapsed(s)) =>
      /\ Rejected(VoteNow(v, s, c))
      /\ VoteNow(v, s, c).err \in StateErrors

\* C3 amended: a vote on a session for which isSessionActive is false is
\* rejected and leaves tallies and vote records unchanged, also when the active
\* flag is set and the window has lapsed; the error is a StateError when the
\* caller is registered, and the AuthError of an unregistered caller when the
\* caller is not registered and the session exists.
C3_InactiveVoteRejected ==
  \A s \in SessionIds : \A v \in Callers : \A c \in CandidateIds :
    (~isSessionActive(Ledger, now, s) \/ Lapsed(s)) =>
      /\ Rejected(VoteNow(v, s, c))
      /\ registeredVoters[v] => VoteNow(v, s, c).err \in StateErrors
      /\ (~registeredVoters[v] /\ s \in Created) =>
           VoteNow(v, s, c).err = "Not registered to vote"

\* A session that holds a vote, still has its active flag set, and whose
\* window has lapsed: a registered caller who has not voted names an active
\* candidate and is turned away.
C3_Witness ==
  \E s \in Created : \E v \in Callers : \E c \in 1..votingSessions[s].candidateCount :
    /\ votingSessions[s].isActive
    /\ now > votingSessions[s].endTime
    /\ votingSessions[s].totalVotes >= 1
    /\ registeredVoters[v]
    /\ ~votingSessions[s].hasVoted[v]
    /\ votingSessions[s].candidates[c].isActive
    /\ VoteNow(v, s, c).err = "Session not active"

(* -------------------------------- C4 ---------------------------------- *)

\* createSession can be evaluated in the model: it fails in its opening
\* requires, or the session and candidate tables have room for what it writes.
Room(sender, name, st, en, names) ==
  (sender = owner /\ st < en /\ Len(names) > 0 /\ name # "") =>
    (sessionCount < MaxSessions /\ Fits(names))

OwnerError(r) ==
  /\ Rejected(r)
  /\ r.err = "Only owner can perform this action"
  /\ r.err \in AuthErrors

\* C5: the administrative identity is the deployer and never changes, and a
\* call of createSession, addCandidate, updateCandidate, removeCandidate,
\* startSession, endSession, registerVoter or the bulk registration by any
\* other identity fails with AuthError and changes nothing, whatever its
\* arguments and whether or not the caller is a registered voter.
C5_OnlyOwnerAdministers ==
  /\ owner = Deployer
  /\ \A sender \in Callers \ {owner} :
       /\ \A name \in SessionNames, w \in Windows, names \in NameLists :
            OwnerError(createSession(Ledger, sender, now, name, w[1], w[2], names))
       /\ \A sid \in SessionIds :
            /\ \A name \in CandidateNames :
                 OwnerError(addCandidateToSession(Ledger, sender, now, sid, name))
            /\ \A cid \in CandidateIds :
                 /\ \A newName \in NewNames :
                      OwnerError(updateCandidate(Ledger, sender, now, sid, cid, newName))
                 /\ OwnerError(removeCandidateFromSession(Ledger, sender, now, sid, cid))
            /\ OwnerError(startSession(Ledger, sender, now, sid))
            /\ OwnerError(endSession(Ledger, sender, now, sid))
       /\ \A voter \in Address : OwnerError(registerVoter(Ledger, sender, voter))
       /\ \A voters \in AddressLists :
            OwnerError(registerMultipleVoters(Ledger, sender, voters))

\* A registered voter who is not the owner asks for what the owner could do
\* at this moment (start an existing session, add a candidate to it) and is
\* turned away.
C5_Witness ==
  \E sender \in Callers \ {owner} : \E s \in Created :
    /\ registeredVoters[sender]
    /\ startSession(Ledger, owner, now, s).ok
    /\ ~startSession(Ledger, sender, now, s).ok
    /\ addCandidateToSession(Ledger, owner, now, s, "Bob").ok
    /\ ~addCandidateToSession(Ledger, sender, now, s, "Bob").ok

(* -------------------------------- C6 ---------------------------------- *)

\* The step appended a VoteCast event.
VoteCastStep ==
  /\ Len(log') = Len(log) + 1
  /\ log'[Len(log')].type = "VoteCast"

\* The whole effect of a successful vote, read off the event it appended.
VoteEffect ==
  LET e == log'[Len(log')]
      s == e.sessionId
      v == e.voter
      c == e.candidateId
  IN /\ log' = Append(log, VoteCast(s, v, c))
     /\ ~votingSessions[s].hasVoted[v]
     /\ votingSessions' =
          [votingSessions EXCEPT
             ![s] = [@ EXCEPT
                       !.hasVoted = [@ EXCEPT ![v] = TRUE],
                       !.voterChoice = [@ EXCEPT ![v] = c],
                       !.candidates =
                          [@ EXCEPT ![c] =
                             [id |-> @.id, name |-> @.name,
                              voteCount |-> @.voteCount + 1,
                              isActive |-> @.isActive]],
                       !.totalVotes = votingSessions[s].totalVotes + 1]]
     /\ UNCHANGED <<sessionCount, registeredVoters, owner, now>>

\* No state shows a part of a vote: a voter is marked as voted exactly when a
\* choice is recorded and a VoteCast event for that choice is in the log, and
\* each tally is the number of VoteCast events behind it.
NoPartialVote ==
  \A s \in 1..MaxSessions :
    LET sess == votingSessions[s]
    IN /\ \A v \in Address :
            /\ sess.hasVoted[v] <=> sess.voterChoice[v] # 0
            /\ sess.hasVoted[v] <=>
                 \E i \in VoteCastBy(s, v) : log[i].candidateId = sess.voterChoice[v]
       /\ \A c \in 1..MaxCandidates :
            sess.candidates[c].voteCount =
              Cardinality({i \in EventsOf("VoteCast", s) : log[i].candidateId = c})
       /\ sess.totalVotes = Cardinality(EventsOf("VoteCast", s))

\* C6: a successful vote(s, c) of v sets hasVoted[s][v], records the choice c,
\* adds one to candidate c's voteCount and to the session's totalVotes and
\* appends one VoteCast(s, v, c), all in one transition that changes nothing
\* else; no reachable state shows only some of these updates.
C6_VoteIsOneTransition == [][VoteCastStep => VoteEffect]_vars /\ []NoPartialVote

\* The last transaction was a vote for one of two active candidates, cast
\* while a second identity was registered and had not voted.
C6_Witness ==
  /\ Len(log) >= 1
  /\ log[Len(log)].type = "VoteCast"
  /\ LET s == log[Len(log)].sessionId
     IN /\ votingSessions[s].candidateCount = 2
        /\ votingSessions[s].totalVotes = 1
        /\ votingSessions[s].voterChoice[log[Len(log)].voter]
             = log[Len(log)].candidateId

(* -------------------------------- C7 ---------------------------------- *)

VoteRecordKept ==
  \A s \in 1..MaxSessions : \A v \in Address :
    votingSessions[s].hasVoted[v] =>
      /\ votingSessions'[s].hasVoted[v]
      /\ votingSessions'[s].voterChoice[v] = votingSessions[s].voterChoice[v]

ChoiceQueries ==
  \A s \in SessionIds : \A v \in Address :
    IF s \in Created /\ votingSessions[s].hasVoted[v]
    THEN /\ hasVotedInSession(Ledger, v, s).ok
         /\ hasVotedInSession(Ledger, v, s).ret = TRUE
         /\ getVoterChoice(Ledger, v, s).ok
         /\ \E i \in VoteCastBy(s, v) :
              getVoterChoice(Ledger, v, s).ret = log[i].candidateId
    ELSE /\ ~getVoterChoice(Ledger, v, s).ok
         /\ getVoterChoice(Ledger, v, s).err \in StateErrors

\* C7: once v has voted for c in s, hasVoted(v, s) is true and getChoice(v, s)
\* returns c in every later state, whatever operation follows; while v has not
\* voted in s, getChoice(v, s) fails with StateError.
C7_VoteRecordWriteOnce == [][VoteRecordKept]_vars /\ []ChoiceQueries

\* A voter's choice is still returned after the window of the session has
\* lapsed and the chosen candidate has been deactivated.
C7_Witness ==
  \E s \in Created : \E v \in Callers :
    /\ votingSessions[s].hasVoted[v]
    /\ now > votingSessions[s].endTime
    /\ ~votingSessions[s].candidates[votingSessions[s].voterChoice[v]].isActive
    /\ getVoterChoice(Ledger, v, s).ret = votingSessions[s].voterChoice[v]

(* -------------------------------- C8 ---------------------------------- *)

BadCreateInput(name, st, en, names) == st >= en \/ name = "" \/ Len(names) = 0

\* C8 as stated: whoever calls, createSession with startTime >= endTime, an
\* empty name or no candidate names fails with ValidationError, creates no
\* session and leaves sessionCount unchanged.
C8_BadInputValidationError ==
  \A sender \in Callers, name \in SessionNames, w \in TimePairs,
     names \in NameLists :
    BadCreateInput(name, w[1], w[2], names) =>
      LET r == createSession(Ledger, sender, now, name, w[1], w[2], names)
      IN /\ Rejected(r)
         /\ r.err \in ValidationErrors

\* C8 amended: createSession with startTime >= endTime, an empty name or no
\* candidate names fails, creates no session and leaves sessionCount
\* unchanged; the error is a ValidationError when the caller is the
\* administrative identity and the AuthError of the owner check otherwise.
C8_BadInputRejected ==
  \A sender \in Callers, name \in SessionNames, w \in TimePairs,
     names \in NameLists :
    BadCreateInput(name, w[1], w[2], names) =>
      LET r == createSession(Ledger, sender, now, name, w[1], w[2], names)
      IN /\ Rejected(r)
         /\ Transact(Ledger, r).sessionCount = sessionCount
         /\ sender = owner => r.err \in ValidationErrors
         /\ sender # owner => r.err \in AuthErrors

\* With one session on the ledger and room for another, the owner's
\* createSession is accepted for the window [1, 2] and turned away for the
\* windows [1, 1] and [2, 1], for an empty name and for an empty list.
C8_Witness ==
  /\ sessionCount = 1
  /\ createSession(Ledger, owner, now, "Election", 1, 2, <<"Alice">>).ok
  /\ createSession(Ledger, owner, now, "Election", 1, 1, <<"Alice">>).err
       = "Invalid time range"
  /\ createSession(Ledger, owner, now, "Election", 2, 1, <<"Alice">>).err
       = "Invalid time range"
  /\ createSession(Ledger, owner, now, "", 1, 2, <<"Alice">>).err
       = "Session name cannot be empty"
  /\ createSession(Ledger, owner, now, "Election", 1, 2, <<>>).err
       = "At least one candidate required"

(* -------------------------------- C9 ---------------------------------- *)

HasEmptyName(names) == \E i \in 1..Len(names) : names[i] = ""

\* Lists of at most three names with an empty name somewhere.
ListsWithEmptyName ==
  {names \in UNION {[1..n -> {"", "Alice"}] : n \in 1..3} : HasEmptyName(names)}

\* C9: a createSession whose candidateNames holds an empty name at any
\* position fails as a whole: sessionCount is unchanged, no session exists at
\* the id it would have taken, none of the candidates before the empty name
\* exists, and no SessionCreated or CandidateAdded event was appended.
C9_EmptyCandidateNameFailsWhole ==
  sessionCount < MaxSessions =>
    \A sender \in Callers, name \in SessionNames, w \in Windows,
       names \in ListsWithEmptyName :
      Fits(names) =>
        LET r == createSession(Ledger, sender, now, name, w[1], w[2], names)
            after == Transact(Ledger, r)
        IN /\ ~r.ok
           /\ after.sessionCount = sessionCount
           /\ ~after.votingSessions[sessionCount + 1].isCreated
           /\ after.votingSessions[sessionCount + 1].candidateCount = 0
           /\ \A c \in 1..MaxCandidates :
                after.votingSessions[sessionCount + 1].candidates[c] = ZeroCandidate
           /\ after.votingSessions = votingSessions
           /\ after.log = log

\* With one session on the ledger, the owner's createSession stops at an
\* empty name in first, in middle and in last position; in the last two cases
\* candidates had been added before it stopped.
C9_Witness ==
  /\ sessionCount = 1
  /\ LET first == createSession(Ledger, owner, now, "Election", 1, 2,
                                <<"", "Alice", "Bob">>)
         middle == createSession(Ledger, owner, now, "Election", 1, 2,
                                 <<"Alice", "", "Bob">>)
         final == createSession(Ledger, owner, now, "Election", 1, 2,
                                <<"Alice", "Bob", "">>)
     IN /\ first.err = "Candidate name cannot be empty"
        /\ first.st.votingSessions[2].candidateCount = 0
        /\ middle.err = "Candidate name cannot be empty"
        /\ middle.st.votingSessions[2].candidateCount = 1
        /\ final.err = "Candidate name cannot be empty"
        /\ final.st.votingSessions[2].candidateCount = 2

(* -------------------------------- C10 --------------------------------- *)

\* The session createSession stores for (name, st, en, names).
FreshSession(sid, name, st, en, names) ==
  [sessionId |-> sid, sessionName |-> name, startTime |-> st, endTime |-> en,
   isActive |-> FALSE, isCreated |-> TRUE, candidateCount |-> Len(names),
   totalVotes |-> 0,
   candidates |-> [i \in 1..MaxCandidates |->
                     IF i <= Len(names)
                     THEN [id |-> i, name |-> names[i], voteCount |-> 0,
                           isActive |-> TRUE]
                     ELSE ZeroCandidate],
   hasVoted |-> [a \in Address |-> FALSE],
   voterChoice |-> [a \in Address |-> 0]]

\* C10: a successful createSession(name, start, end, names) returns the
\* previous sessionCount plus one; the new session has active = false,
\* created = true, totalVotes = 0, candidateCount = length(names) and, for
\* every i, candidate i with id i, name names[i], voteCount 0 and
\* active = true; no existing session is modified.
C10_CreateSessionResult ==
  sessionCount < MaxSessions =>
    \A sender \in Callers, name \in SessionNames, w \in TimePairs,
       names \in NameLists :
      Fits(names) =>
        LET r == createSession(Ledger, sender, now, name, w[1], w[2], names)
        IN r.ok =>
             /\ r.ret = sessionCount + 1
             /\ r.st.sessionCount = sessionCount + 1
             /\ r.st.votingSessions[r.ret] = FreshSession(r.ret, name, w[1], w[2], names)
             /\ \A s \in 1..MaxSessions :
                  s # r.ret => r.st.votingSessions[s] = votingSessions[s]
             /\ r.st.registeredVoters = registeredVoters
             /\ r.st.owner = owner

\* The last transaction created session 2 with two candidates beside a
\* session 1 with another window.
C10_Witness ==
  /\ sessionCount = 2
  /\ log[Len(log)].type = "SessionCreated"
  /\ log[Len(log)].sessionId = 2
  /\ votingSessions[2] = FreshSession(2, "Election", log[Len(log)].startTime,
                                      log[Len(log)].endTime, <<"Alice", "Bob">>)
  /\ votingSessions[1].isCreated
  /\ votingSessions[1].startTime # votingSessions[2].startTime

(* -------------------------------- C11 --------------------------------- *)

\* Session sid exists, its active flag is false and startTime <= now < endTime.
Startable(sid) ==
  /\ sid \in Created
  /\ votingSessions[sid].isCreated
  /\ ~votingSessions[sid].isActive
  /\ votingSessions[sid].startTime <= now
  /\ now < votingSessions[sid].endTime

\* C11: startSession(s) called by the administrative identity succeeds if and
\* only if s exists, its active flag is false and startTime <= now < endTime;
\* on success it only sets the active flag to true and emits SessionStarted;
\* otherwise (including now < startTime and now = endTime) it fails with a
\* StateError and changes nothing.
C11_StartSessionPrecondition ==
  \A sid \in SessionIds :
    LET r == startSession(Ledger, owner, now, sid)
    IN /\ r.ok <=> Startable(sid)
       /\ r.ok =>
            r.st = [Ledger EXCEPT !.votingSessions[sid].isActive = TRUE,
                                  !.log = Append(log, SessionStarted(sid))]
       /\ ~r.ok => r.err \in StateErrors /\ Rejected(r)

\* The clock stands at the endTime of a session that was never started, so
\* that starting it is turned away, and the last transaction started another
\* session at its startTime.
C11_Witness ==
  \E s1 \in Created, s2 \in Created :
    /\ ~votingSessions[s1].isActive
    /\ now = votingSessions[s1].endTime
    /\ startSession(Ledger, owner, now, s1).err = "Session end time passed"
    /\ votingSessions[s2].isActive
    /\ now = votingSessions[s2].startTime
    /\ log[Len(log)] = SessionStarted(s2)

(* -------------------------------- C12 --------------------------------- *)

\* C12: endSession(s) called by the administrative identity succeeds if and
\* only if s exists and its active flag is true, whatever the current time
\* (before endTime or after it); on success it only sets the active flag to
\* false and emits SessionEnded: tallies, vote records and candidates are
\* unchanged.
C12_EndSessionAnyTime ==
  \A sid \in SessionIds :
    LET r == endSession(Ledger, owner, now, sid)
    IN /\ r.ok <=> (/\ sid \in Created
                    /\ votingSessions[sid].isCreated
                    /\ votingSessions[sid].isActive)
       /\ r.ok =>
            /\ r.st = [Ledger EXCEPT !.votingSessions[sid].isActive = FALSE,
                                     !.log = Append(log, SessionEnded(sid))]
            /\ r.st.votingSessions[sid].totalVotes = votingSessions[sid].totalVotes
            /\ r.st.votingSessions[sid].candidates = votingSessions[sid].candidates
            /\ r.st.votingSessions[sid].hasVoted = votingSessions[sid].hasVoted
            /\ r.st.votingSessions[sid].voterChoice =
                 votingSessions[sid].voterChoice

\* The last transaction ended a session that holds a vote, after the
\* session's endTime had passed.
C12_Witness ==
  \E s \in Created :
    /\ log[Len(log)] = SessionEnded(s)
    /\ ~votingSessions[s].isActive
    /\ now > votingSessions[s].endTime
    /\ votingSessions[s].totalVotes >= 1

(* -------------------------------- C13 --------------------------------- *)

\* The ids isSessionActive is asked about: 0, every id a session can have and
\* one beyond.
QueriedIds == 0..(MaxSessions + 1)

\* C13: isSessionActive(id) never fails: it returns false for id 0 and for
\* every id > sessionCount, and for an existing session it returns true
\* exactly when the session is created, its active flag is true and
\* startTime <= now <= endTime, both bounds included.
C13_IsSessionActiveTotal ==
  \A id \in QueriedIds :
    /\ isSessionActive(Ledger, now, id) \in BOOLEAN
    /\ (id = 0 \/ id > sessionCount) => ~isSessionActive(Ledger, now, id)
    /\ id \in Created =>
         (isSessionActive(Ledger, now, id) <=>
            /\ votingSessions[id].isCreated
            /\ votingSessions[id].isActive
            /\ votingSessions[id].startTime <= now
            /\ now <= votingSessions[id].endTime)

\* The clock stands at the endTime of a started session, which is still
\* active, while the ids 0 and sessionCount + 1 name no session.
C13_Witness ==
  \E s \in Created :
    /\ votingSessions[s].isActive
    /\ now = votingSessions[s].endTime
    /\ isSessionActive(Ledger, now, s)
    /\ ~isSessionActive(Ledger, now, 0)
    /\ ~isSessionActive(Ledger, now, sessionCount + 1)

(* -------------------------------- C14 --------------------------------- *)

\* Session s accepts votes in the current state.
AcceptsVotes(s) == isSessionActive(Ledger, now, s)

\* Every addCandidate, updateCandidate and removeCandidate on a session that
\* is active per isSessionActive fails and changes nothing.
BlockedWhileActive ==
  \A s \in Created :
    AcceptsVotes(s) =>
      \A sender \in Callers :
        /\ \A name \in CandidateNames :
             Rejected(addCandidateToSession(Ledger, sender, now, s, name))
        /\ \A cid \in CandidateIds :
             /\ \A newName \in NewNames :
                  Rejected(updateCandidate(Ledger, sender, now, s, cid, newName))
             /\ Rejected(removeCandidateFromSession(Ledger, sender, now, s, cid))

\* The session accepts votes after the step at the clock value at which it
\* last accepted votes, and its candidate collection is the one it had then.
SameCollectionAtSameClock ==
  \A s \in 1..MaxSessions :
    (frozen[s] # <<>> /\ now' = now /\ AcceptsVotes(s)') =>
      frozen'[s] = frozen[s]

\* The session accepts votes before and after the step, and its candidate
\* collection is unchanged.
SameCollectionWhileAccepting ==
  \A s \in 1..MaxSessions :
    (AcceptsVotes(s) /\ AcceptsVotes(s)') =>
      Collection(votingSessions[s])' = Collection(votingSessions[s])

\* C14 as stated: addCandidate, updateCandidate and removeCandidate on s fail
\* with no effect whenever isSessionActive(s) is true at the time of the
\* call, so that between a moment when s accepts votes and the next moment it
\* accepts votes at the same clock value the candidate collection is
\* identical.
C14_CollectionFixedAtSameClock ==
  []BlockedWhileActive /\ [][SameCollectionAtSameClock]_vars

\* C14 amended: addCandidate, updateCandidate and removeCandidate on s fail
\* with no effect whenever isSessionActive(s) is true at the time of the
\* call, so that the candidate collection is identical between a moment when
\* s accepts votes and the next moment, provided s accepts votes at that next
\* moment too (an endSession lifts the block until s is started again).
C14_CollectionFixedWhileAccepting ==
  []BlockedWhileActive /\ [][SameCollectionWhileAccepting]_vars

\* The last transaction was a vote in a session that goes on accepting votes
\* with both of its candidates active, and the owner's attempts to add, rename
\* and remove a candidate are turned away.
C14_Witness ==
  \E s \in Created :
    /\ AcceptsVotes(s)
    /\ log[Len(log)].type = "VoteCast"
    /\ log[Len(log)].sessionId = s
    /\ frozen[s] = <<Collection(votingSessions[s])>>
    /\ votingSessions[s].candidates[2].isActive
    /\ addCandidateToSession(Ledger, owner, now, s, "Bob").err
         = "Cannot modify active session"
    /\ updateCandidate(Ledger, owner, now, s, 2, "Carol").err
         = "Cannot modify active session"
    /\ removeCandidateFromSession(Ledger, owner, now, s, 2).err
         = "Cannot modify active session"

(* -------------------------------- C15 --------------------------------- *)

\* Some addCandidate, updateCandidate or removeCandidate on session s
\* succeeds in the current state.
CanModify(s) ==
  \E sender \in Callers :
    \/ \E name \in CandidateNames :
         HasRoom(s) /\ addCandidateToSession(Ledger, sender, now, s, name).ok
    \/ \E cid \in CandidateIds :
         \/ \E newName \in NewNames :
              updateCandidate(Ledger, sender, now, s, cid, newName).ok
         \/ removeCandidateFromSession(Ledger, sender, now, s, cid).ok

\* C15 as stated: while the active flag of a session is true (from a
\* successful startSession until the next successful endSession) no
\* addCandidate, updateCandidate or removeCandidate on that session succeeds,
\* at any clock value.
C15_FlagBlocksModification ==
  \A s \in Created : votingSessions[s].isActive => ~CanModify(s)

\* C15 amended: while the active flag of a session is true and the clock is
\* within the session's window (startTime <= now <= endTime) no addCandidate,
\* updateCandidate or removeCandidate on that session succeeds; once the clock
\* has passed endTime the owner's calls are no longer turned away as
\* modifications of an active session, although the flag is still true.
C15_ActiveWindowBlocksModification ==
  \A s \in Created :
    votingSessions[s].isActive =>
      /\ (votingSessions[s].startTime <= now /\ now <= votingSessions[s].endTime)
           => ~CanModify(s)
      /\ now > votingSessions[s].endTime =>
           \A cid \in CandidateIds :
             LET r == removeCandidateFromSession(Ledger, owner, now, s, cid)
             IN /\ r.err # "Cannot modify active session"
                /\ (cid \in 1..votingSessions[s].candidateCount
                    /\ votingSessions[s].candidates[cid].isActive) => r.ok

\* The clock stands at the endTime of a started session that holds a vote: the
\* owner's removal of the voted-for candidate is turned away because the
\* session is active.
C15_Witness ==
  \E s \in Created : \E v \in Callers :
    /\ votingSessions[s].isActive
    /\ now = votingSessions[s].endTime
    /\ votingSessions[s].hasVoted[v]
    /\ removeCandidateFromSession(Ledger, owner, now, s,
                                  votingSessions[s].voterChoice[v]).err
         = "Cannot modify active session"

(* -------------------------------- C16 --------------------------------- *)

\* The candidate ids handed to removeCandidate: 0, every id a candidate can
\* have and one beyond.
RemovedIds == 0..(MaxCandidates + 1)

\* C16: a successful removeCandidate(s, c) changes only candidate c's active
\* flag, from true to false: c's voteCount and name, the session's
\* candidateCount and totalVotes and every vote record (those whose choice is
\* c included) are unchanged; removeCandidate on an already inactive
\* candidate, or on an id outside 1..candidateCount, fails and changes nothing.
C16_RemoveIsSoftDelete ==
  \A s \in Created, c \in RemovedIds, sender \in Callers :
    LET sess == votingSessions[s]
        r == removeCandidateFromSession(Ledger, sender, now, s, c)
        after == r.st.votingSessions[s]
    IN /\ r.ok =>
            /\ sess.candidates[c].isActive
            /\ ~after.candidates[c].isActive
            /\ r.st = [Ledger EXCEPT
                         !.votingSessions[s].candidates[c].isActive = FALSE,
                         !.log = Append(log, CandidateRemoved(s, c))]
            /\ after.candidates[c].voteCount = sess.candidates[c].voteCount
            /\ after.candidates[c].name = sess.candidates[c].name
            /\ after.candidateCount = sess.candidateCount
            /\ after.totalVotes = sess.totalVotes
            /\ after.hasVoted = sess.hasVoted
            /\ after.voterChoice = sess.voterChoice
       /\ (c \notin 1..sess.candidateCount \/ ~sess.candidates[c].isActive)
            => Rejected(r)

\* The last transaction removed a candidate that holds a vote: the vote count
\* and the voter's record of that choice are still there, and removing the
\* candidate again is turned away.
C16_Witness ==
  \E s \in Created : \E v \in Callers :
    LET c == votingSessions[s].voterChoice[v]
    IN /\ votingSessions[s].hasVoted[v]
       /\ log[Len(log)] = CandidateRemoved(s, c)
       /\ ~votingSessions[s].candidates[c].isActive
       /\ votingSessions[s].candidates[c].voteCount = 1
       /\ votingSessions[s].totalVotes = 1
       /\ removeCandidateFromSession(Ledger, owner, now, s, c).err
            = "Candidate already inactive"

(* -------------------------------- C17 --------------------------------- *)

\* Candidate c of session s exists and has been deactivated.
Deactivated(s, c) ==
  /\ s \in Created
  /\ c \in 1..votingSessions[s].candidateCount
  /\ ~votingSessions[s].candidates[c].isActive

\* A deactivated candidate is deactivated after the step and has the vote
\* count it had before it.
DeactivatedStays ==
  \A s \in 1..MaxSessions, c \in 1..MaxCandidates :
    Deactivated(s, c) =>
      /\ Deactivated(s, c)'
      /\ votingSessions'[s].candidates[c].voteCount
           = votingSessions[s].candidates[c].voteCount

\* C17 as stated: once a candidate has been deactivated it is never active
\* again: in every later state every vote naming that candidate id fails with
\* ValidationError, and its voteCount stays equal to the value it had at the
\* moment of deactivation.
C17_VoteOnDeactivatedValidationError ==
  /\ [](\A s \in 1..MaxSessions, c \in 1..MaxCandidates, v \in Callers :
          Deactivated(s, c) =>
            /\ Rejected(VoteNow(v, s, c))
            /\ VoteNow(v, s, c).err \in ValidationErrors)
  /\ [][DeactivatedStays]_vars

\* C17 amended: once a candidate has been deactivated it is never active
\* again: in every later state every vote naming that candidate id fails and
\* changes nothing, and its voteCount stays equal to the value it had at the
\* moment of deactivation; the error is a ValidationError when the caller is
\* registered, the session is active and the caller has not voted in it, the
\* AuthError of an unregistered caller or the StateError of an inactive
\* session or a repeated vote otherwise.
C17_VoteOnDeactivatedRejected ==
  /\ [](\A s \in 1..MaxSessions, c \in 1..MaxCandidates, v \in Callers :
          Deactivated(s, c) =>
            /\ Rejected(VoteNow(v, s, c))
            /\ VoteNow(v, s, c).err \in
                 IF ~registeredVoters[v] THEN AuthErrors
                 ELSE IF ~AcceptsVotes(s) \/ votingSessions[s].hasVoted[v]
                      THEN StateErrors
                      ELSE ValidationErrors)
  /\ [][DeactivatedStays]_vars

\* A session accepts votes after one of its two candidates was removed: the
\* owner, who is registered and has not voted, is turned away from the
\* removed candidate and could vote for the other one.
C17_Witness ==
  \E s \in Created, c \in 1..MaxCandidates, d \in 1..MaxCandidates :
    /\ Deactivated(s, c)
    /\ AcceptsVotes(s)
    /\ \E i \in 1..Len(log) : log[i] = CandidateRemoved(s, c)
    /\ VoteNow(owner, s, c).err = "Candidate not active"
    /\ VoteNow(owner, s, d).ok

(* -------------------------------- C18 --------------------------------- *)

\* C18: the single-entry registerVoter(address), called by the administrative
\* identity, fails with ValidationError for the null identity and with
\* StateError for an already registered identity, leaving the registry and
\* the log unchanged; otherwise it adds exactly that identity and emits
\* exactly one VoterRegistered for it.
C18_RegisterVoterSingle ==
  \A voter \in Address :
    LET r == registerVoter(Ledger, owner, voter)
    IN /\ voter = ZeroAddress =>
            /\ Rejected(r)
            /\ r.err \in ValidationErrors
       /\ (voter # ZeroAddress /\ registeredVoters[voter]) =>
            /\ Rejected(r)
            /\ r.err \in StateErrors
       /\ (voter # ZeroAddress /\ ~registeredVoters[voter]) =>
            /\ r.ok
            /\ r.st.registeredVoters =
                 [a \in Address |-> registeredVoters[a] \/ a = voter]
            /\ r.st.log = Append(log, VoterRegistered(voter))
            /\ r.st = [Ledger EXCEPT !.registeredVoters = r.st.registeredVoters,
                                     !.log = r.st.log]

\* A session exists and the last transaction registered a voter: registering
\* that voter again and registering the null identity are turned away.
C18_Witness ==
  /\ sessionCount >= 1
  /\ log[Len(log)] = VoterRegistered("v1")
  /\ registeredVoters["v1"]
  /\ ~registeredVoters[ZeroAddress]
  /\ registerVoter(Ledger, owner, "v1").err = "Voter already registered"
  /\ registerVoter(Ledger, owner, ZeroAddress).err = "Invalid voter address"

(* -------------------------------- C19 --------------------------------- *)

\* The batches handed to bulk registration: every sequence of at most three
\* identities, the null identity and repetitions included.
Batches == UNION {[1..n -> Address] : n \in 0..3}

Entries(L) == {L[i] : i \in 1..Len(L)}

\* The events a call appended to the log.
Appended(r) == SubSeq(r.st.log, Len(log) + 1, Len(r.st.log))

\* C19: bulk registration of a sequence L by the administrative identity
\* never fails because of its entries: afterwards the registry equals the old
\* registry united with the non-null entries of L, exactly one VoterRegistered
\* is emitted per identity newly added (an identity repeated inside L yields
\* one event, null and already registered entries yield none), and applying
\* the same batch a second time changes nothing and emits nothing.
C19_BulkRegistration ==
  \A L \in Batches :
    LET r == registerMultipleVoters(Ledger, owner, L)
        added == {a \in Entries(L) \ {ZeroAddress} : ~registeredVoters[a]}
        new == Appended(r)
        again == registerMultipleVoters(r.st, owner, L)
    IN /\ r.ok
       /\ r.st.registeredVoters =
            [a \in Address |->
               registeredVoters[a] \/ (a \in Entries(L) /\ a # ZeroAddress)]
       /\ SubSeq(r.st.log, 1, Len(log)) = log
       /\ Len(new) = Cardinality(added)
       /\ \A a \in added :
            Cardinality({i \in 1..Len(new) : new[i] = VoterRegistered(a)}) = 1
       /\ r.st = [Ledger EXCEPT !.registeredVoters = r.st.registeredVoters,
                                !.log = r.st.log]
       /\ again.ok
       /\ again.st = r.st

\* A session exists and one identity is not registered yet: a batch that
\* names the null identity and twice the new identity, and one that names the
\* owner before the new identity, register the new identity with one event,
\* and a second application adds nothing.
C19_Witness ==
  /\ sessionCount >= 1
  /\ ~registeredVoters["v1"]
  /\ \A L \in {<<ZeroAddress, "v1", "v1">>, <<"owner", "v1", ZeroAddress>>} :
       LET r == registerMultipleVoters(Ledger, owner, L)
       IN /\ L \in Batches
          /\ r.ok
          /\ r.st.log = Append(log, VoterRegistered("v1"))
          /\ r.st.registeredVoters["v1"]
          /\ ~r.st.registeredVoters[ZeroAddress]
          /\ registerMultipleVoters(r.st, owner, L).st = r.st

(* -------------------------------- C20 --------------------------------- *)

\* C20: registerSelf succeeds for any caller that is not currently
\* registered, adding exactly that caller to the registry and emitting one
\* VoterRegistered; it fails with StateError for a caller that is already
\* registered, and therefore always fails for the administrative identity.
C20_RegisterSelf ==
  /\ \A sender \in Callers :
       LET r == registerSelf(Ledger, sender)
       IN /\ ~registeredVoters[sender] =>
               /\ r.ok
               /\ r.st.registeredVoters =
                    [a \in Address |-> registeredVoters[a] \/ a = sender]
               /\ r.st = [Ledger EXCEPT
                            !.registeredVoters = r.st.registeredVoters,
                            !.log = Append(log, VoterRegistered(sender))]
          /\ registeredVoters[sender] =>
               /\ Rejected(r)
               /\ r.err \in StateErrors
  /\ registeredVoters[owner]
  /\ Rejected(registerSelf(Ledger, owner))

\* A voter who registered has voted, and neither that voter nor the owner can
\* register themselves now.
C20_Witness ==
  /\ \E i \in 1..Len(log) : log[i] = VoterRegistered("v1")
  /\ \E s \in Created : votingSessions[s].hasVoted["v1"]
  /\ registerSelf(Ledger, "v1").err = "Already registered"
  /\ registerSelf(Ledger, owner).err = "Already registered"

(* ---- C21 ---- *)

\* The addresses registered in the current state.
Registered == {a \in Address : registeredVoters[a]}

\* C21: the voter registry only grows. The owner is registered in the initial
\* state, and in every step every registered address stays registered.
C21_RegistryOnlyGrows ==
  /\ registeredVoters[owner]
  /\ [][Registered \subseteq Registered']_vars

\* A voter other than the owner was registered, and later operations followed
\* (a vote by that voter, a session ended) with both entries still present.
C21_Witness ==
  /\ Registered = {"owner", "v1"}
  /\ \E i \in 1..Len(log) :
       /\ log[i] = VoterRegistered("v1")
       /\ \E j \in (i + 1)..Len(log) : log[j].type \in {"VoteCast", "SessionEnded"}

(* ---- C22 ---- *)

\* The result of getSessionWinner on session s in the current state.
Winner(s) == getSessionWinner(Ledger, s)

\* The sessions in which no vote has been cast.
Voteless == {s \in Created : votingSessions[s].totalVotes = 0}

\* C22: getSessionWinner on an existing session with totalVotes = 0 succeeds
\* and returns ("No votes cast", 0, false), whatever the candidates of the
\* session and their active flags are.
C22_NoVotesCast ==
  \A s \in Voteless :
    /\ Winner(s).ok
    /\ Winner(s).ret = WinnerResult("No votes cast", 0, FALSE)

\* A session without votes that has an active and a deactivated candidate,
\* queried with that answer.
C22_Witness ==
  \E s \in Voteless :
    /\ \E c \in 1..votingSessions[s].candidateCount :
         votingSessions[s].candidates[c].isActive
    /\ \E c \in 1..votingSessions[s].candidateCount :
         ~votingSessions[s].candidates[c].isActive
    /\ Winner(s).ret.winnerName = "No votes cast"

(* ---- C23 ---- *)

\* The ids of the active candidates of a session.
ActiveIds(sess) ==
  {c \in 1..sess.candidateCount : sess.candidates[c].isActive}

\* The largest voteCount among the active candidates (0 when there is none).
MaxActiveVotes(sess) ==
  IF ActiveIds(sess) = {} THEN 0
  ELSE CHOOSE m \in {sess.candidates[c].voteCount : c \in ActiveIds(sess)} :
         \A c \in ActiveIds(sess) : sess.candidates[c].voteCount <= m

\* The active candidates that have that voteCount.
Leaders(sess) ==
  {c \in ActiveIds(sess) : sess.candidates[c].voteCount = MaxActiveVotes(sess)}

\* The smallest id of a nonempty set of ids.
LowestId(ids) == CHOOSE c \in ids : \A d \in ids : c <= d

\* C23: in a session in which some active candidate has a vote,
\* getSessionWinner returns the name and the voteCount of the lowest-id
\* active candidate whose voteCount is the maximum over the active
\* candidates, and isTie is true exactly when at least two active candidates
\* have that maximum; a deactivated candidate is neither reported nor counted.
C23_WinnerRule ==
  \A s \in Created :
    LET sess == votingSessions[s]
    IN MaxActiveVotes(sess) > 0 =>
         /\ Winner(s).ok
         /\ Winner(s).ret =
              WinnerResult(sess.candidates[LowestId(Leaders(sess))].name,
                           MaxActiveVotes(sess),
                           Cardinality(Leaders(sess)) >= 2)

\* Alice (id 1) and Bob (id 2) had one vote each and Alice was deactivated
\* afterwards: the query reports Bob with one vote and no tie.
C23_Witness ==
  /\ sessionCount >= 1
  /\ votingSessions[1].candidateCount = 2
  /\ votingSessions[1].candidates[1].voteCount = 1
  /\ votingSessions[1].candidates[2].voteCount = 1
  /\ ~votingSessions[1].candidates[1].isActive
  /\ votingSessions[1].candidates[2].isActive
  /\ Winner(1).ret = WinnerResult("Bob", 1, FALSE)

(* ---- C24 ---- *)

\* The ids that denote a session: those the sessionExists modifier accepts.
Denoted == {sid \in 0..(MaxSessions + 1) : sessionExists(Ledger, sid) = ""}

\* In every state the ids that denote a session are exactly 1..sessionCount,
\* each with isCreated set and its own id stored; no other slot is created.
IdsDenoteSessions ==
  /\ Denoted = Created
  /\ \A s \in 1..MaxSessions :
       /\ votingSessions[s].isCreated <=> s \in Created
       /\ s \in Created => votingSessions[s].sessionId = s

\* The step is a committed createSession: the log grows and ends with the
\* SessionCreated event of the new highest id.
CreateSessionStep ==
  /\ Len(log') > Len(log)
  /\ log'[Len(log')].type = "SessionCreated"
  /\ log'[Len(log')].sessionId = sessionCount'

\* A step changes sessionCount only by +1 and only as a committed
\* createSession, and a session that exists keeps its id and its name.
IdsNeverReused ==
  /\ sessionCount' # sessionCount =>
       sessionCount' = sessionCount + 1 /\ CreateSessionStep
  /\ CreateSessionStep => sessionCount' = sessionCount + 1
  /\ \A s \in Created :
       /\ votingSessions'[s].isCreated
       /\ votingSessions'[s].sessionId = votingSessions[s].sessionId
       /\ votingSessions'[s].sessionName = votingSessions[s].sessionName

\* C24: session ids are never reused and isCreated is never cleared.
\* sessionCount changes only by +1 on a successful createSession, every id in
\* 1..sessionCount denotes a created session in every later state, and id 0
\* and the ids above sessionCount never denote a session.
C24_SessionIdsPermanent == []IdsDenoteSessions /\ [][IdsNeverReused]_vars

\* Two sessions were created one after the other and an operation on the
\* first one (a start, an end, a change of its candidates) followed the second
\* creation; both ids still denote their sessions.
C24_Witness ==
  /\ sessionCount = 2
  /\ Denoted = {1, 2}
  /\ \E i \in 1..Len(log) :
       /\ log[i].type = "SessionCreated" /\ log[i].sessionId = 2
       /\ \E j \in (i + 1)..Len(log) :
            /\ log[j].type \in {"SessionStarted", "SessionEnded",
                                "CandidateAdded", "CandidateRemoved",
                                "CandidateUpdated"}
            /\ log[j].sessionId = 1

(* ---- C25 ---- *)

\* Every session has startTime < endTime, and its times are those announced
\* by its SessionCreated event.
TimesOrdered ==
  /\ \A s \in Created :
       votingSessions[s].startTime < votingSessions[s].endTime
  /\ \A i \in 1..Len(log) :
       log[i].type = "SessionCreated" =>
         /\ votingSessions[log[i].sessionId].startTime = log[i].startTime
         /\ votingSessions[log[i].sessionId].endTime = log[i].endTime

\* No step changes the times of a session that exists.
TimesKept ==
  \A s \in Created :
    /\ votingSessions'[s].startTime = votingSessions[s].startTime
    /\ votingSessions'[s].endTime = votingSessions[s].endTime

\* C25: for every session startTime < endTime holds in every reachable state,
\* and the startTime and endTime stored at creation are never changed by a
\* later operation.
C25_TimesFixedAtCreation == []TimesOrdered /\ [][TimesKept]_vars

\* A session created with the window [1, 2] was started and ended again and
\* still has that window.
C25_Witness ==
  \E s \in Created :
    /\ votingSessions[s].startTime = 1
    /\ votingSessions[s].endTime = 2
    /\ \E i \in 1..Len(log) :
         /\ log[i] = SessionStarted(s)
         /\ \E j \in (i + 1)..Len(log) : log[j] = SessionEnded(s)

(* ---- C26 ---- *)

\* The sequence is strictly ascending (and so without duplicates).
Ascending(seq) ==
  \A i, j \in 1..Len(seq) : i < j => seq[i] < seq[j]

\* The elements of a sequence.
Elements(seq) == {seq[i] : i \in 1..Len(seq)}

\* The sessions for which isSessionActive is true at the current clock value.
ActiveNow == {s \in Created : isSessionActive(Ledger, now, s)}

\* C26: getAllSessions returns exactly the ids 1..sessionCount in ascending
\* order, and getAllActiveSessions returns, in ascending order and without
\* duplicates, exactly the ids in 1..sessionCount for which isSessionActive
\* is true at the time of the query.
C26_SessionListings ==
  /\ getAllSessions(Ledger).ok
  /\ Ascending(getAllSessions(Ledger).ret)
  /\ Elements(getAllSessions(Ledger).ret) = Created
  /\ getAllActiveSessions(Ledger, now).ok
  /\ Ascending(getAllActiveSessions(Ledger, now).ret)
  /\ Elements(getAllActiveSessions(Ledger, now).ret) = ActiveNow

\* Two sessions have their flag set; the window of session 1 has passed and
\* that of session 2 has not: the listings are <<1, 2>> and <<2>>.
C26_Witness ==
  /\ sessionCount = 2
  /\ votingSessions[1].isActive
  /\ votingSessions[2].isActive
  /\ getAllSessions(Ledger).ret = <<1, 2>>
  /\ getAllActiveSessions(Ledger, now).ret = <<2>>

(* ---- C27 ---- *)

\* A call with result r, made in the current state, appends exactly k events
\* to the log when it succeeds and none when it fails.
Appends(r, k) ==
  /\ r.ok => /\ Len(r.st.log) = Len(log) + k
             /\ SubSeq(r.st.log, 1, Len(log)) = log
  /\ ~r.ok => Transact(Ledger, r).log = log

\* Each of addCandidateToSession, updateCandidate, removeCandidateFromSession,
\* startSession, endSession, registerVoter, registerSelf and vote appends
\* exactly one event when it succeeds and none when it fails.
OneEventEach ==
  /\ \A sender \in Callers, sid \in SessionIds :
       /\ \A name \in CandidateNames :
            HasRoom(sid) =>
              Appends(addCandidateToSession(Ledger, sender, now, sid, name), 1)
       /\ \A cid \in CandidateIds :
            /\ \A newName \in NewNames :
                 Appends(updateCandidate(Ledger, sender, now, sid, cid, newName), 1)
            /\ Appends(removeCandidateFromSession(Ledger, sender, now, sid, cid), 1)
            /\ Appends(vote(Ledger, sender, now, sid, cid), 1)
       /\ Appends(startSession(Ledger, sender, now, sid), 1)
       /\ Appends(endSession(Ledger, sender, now, sid), 1)
  /\ \A sender \in Callers :
       /\ \A voter \in Address : Appends(registerVoter(Ledger, sender, voter), 1)
       /\ Appends(registerSelf(Ledger, sender), 1)

\* The createSession calls of the model's inputs, as <<result, names>>.
CreateCalls ==
  {<<createSession(Ledger, sender, now, name, w[1], w[2], names), names>> :
     sender \in Callers, name \in SessionNames, w \in Windows,
     names \in {l \in NameLists : Fits(l)}}

Newcomers == {v \in Callers : ~Windowed.registeredVoters[v]}

\* The log of the trace after the creation, after the start and the
\* registration of v, and after the vote of v for candidate 2.
TraceCreated == Windowed.log
TraceRegistered(v) == TraceCreated \o <<SessionStarted(1), VoterRegistered(v)>>
TraceVoted(v) == Append(TraceRegistered(v), VoteCast(1, v, 2))

\* C28: the end-to-end trace. After createSession("Election", T, T', <<"Alice",
\* "Bob">>) a startSession of the owner fails with a StateError before T and
\* succeeds at T; a voter who then registers and votes for candidate 2 while
\* the session is open succeeds; a second vote of that voter in the session
\* fails with a StateError, which is "already voted" while the session is
\* open; getSessionWinner then returns ("Bob", 1, false).
C28_EndToEndTrace ==
  /\ log = TraceCreated =>
       LET r == startSession(Ledger, owner, now, 1)
       IN /\ now < TraceStart => Rejected(r) /\ r.err \in StateErrors
          /\ now = TraceStart => r.ok
  /\ \A v \in Newcomers :
       /\ (log = TraceRegistered(v) /\ now <= TraceEnd) =>
            vote(Ledger, v, now, 1, 2).ok
       /\ log = TraceVoted(v) =>
            /\ \A c \in CandidateIds :
                 LET r == vote(Ledger, v, now, 1, c)
                 IN /\ Rejected(r)
                    /\ r.err \in StateErrors
                    /\ now <= TraceEnd => r.err = "Already voted in this session"
            /\ Winner(1).ok
            /\ Winner(1).ret = WinnerResult("Bob", 1, FALSE)

\* The trace was run to its end: the session was started, v1 registered and
\* voted for Bob, a second vote of v1 is rejected as already voted and the
\* winner is Bob with one vote.
C28_Witness ==
  /\ log = TraceVoted("v1")
  /\ vote(Ledger, "v1", now, 1, 2).err = "Already voted in this session"
  /\ Winner(1).ret = WinnerResult("Bob", 1, FALSE)

(* ---- C29 ---- *)

\* A call on session sid with result r left the record of every other
\* session (metadata, flag, candidates, tallies, vote records) as it is.
OthersUntouched(r, sid) ==
  \A s \in 1..MaxSessions :
    s # sid => r.st.votingSessions[s] = votingSessions[s]

\* Every operation on one session leaves the other sessions untouched.
SessionFrame ==
  \A sender \in Callers, sid \in SessionIds :
    /\ \A name \in CandidateNames :
         HasRoom(sid) =>
           OthersUntouched(addCandidateToSession(Ledger, sender, now, sid, name), sid)
    /\ \A cid \in CandidateIds :
         /\ \A newName \in NewNames :
              OthersUntouched(updateCandidate(Ledger, sender, now, sid, cid, newName), sid)
         /\ OthersUntouched(removeCandidateFromSession(Ledger, sender, now, sid, cid), sid)
         /\ OthersUntouched(vote(Ledger, sender, now, sid, cid), sid)
    /\ OthersUntouched(startSession(Ledger, sender, now, sid), sid)
    /\ OthersUntouched(endSession(Ledger, sender, now, sid), sid)

\* A registered voter who has voted in one session and not in another one
\* that is active votes there for any of its active candidates, and after
\* that no second time.
VotesAcrossSessions ==
  \A v \in Callers, s \in Created, s2 \in Created :
    ( /\ s2 # s
      /\ registeredVoters[v]
      /\ votingSessions[s].hasVoted[v]
      /\ ~votingSessions[s2].hasVoted[v]
      /\ isSessionActive(Ledger, now, s2) ) =>
        \A c \in ActiveIds(votingSessions[s2]) :
          LET r == vote(Ledger, v, now, s2, c)
          IN /\ r.ok
             /\ r.st.votingSessions[s2].hasVoted[v]
             /\ r.st.votingSessions[s].hasVoted[v]
             /\ \A d \in CandidateIds : ~vote(r.st, v, now, s2, d).ok

\* C29: sessions are independent. Every operation that targets one session
\* leaves the metadata, the active flag, the candidates, the tallies and the
\* vote records of every other session unchanged, and having voted in one
\* session never prevents the same voter from voting once in another session
\* that is active.
C29_SessionsIndependent == SessionFrame /\ VotesAcrossSessions

\* The owner has voted in session 1, a second session was created and
\* started, and the owner's vote there is accepted while session 1 keeps its
\* tally.
C29_Witness ==
  /\ sessionCount = 2
  /\ votingSessions[1].hasVoted[owner]
  /\ votingSessions[1].totalVotes >= 1
  /\ isSessionActive(Ledger, now, 1)
  /\ isSessionActive(Ledger, now, 2)
  /\ ~votingSessions[2].hasVoted[owner]
  /\ vote(Ledger, owner, now, 2, 1).ok
  /\ vote(Ledger, owner, now, 2, 1).st.votingSessions[1] = votingSessions[1]

(* ---- C30 ---- *)

\* The sessions that were ended and not started again since.
Paused ==
  {s \in Created :
     /\ ~votingSessions[s].isActive
     /\ \E i \in 1..Len(log) : log[i] = SessionEnded(s)}

\* A paused session is started again whenever startTime <= now < endTime.
ResumeInWindow ==
  \A s \in Paused :
    (votingSessions[s].startTime <= now /\ now < votingSessions[s].endTime) =>
      startSession(Ledger, owner, now, s).ok

\* A successful endSession or startSession changes the flag of its session and
\* nothing else of it: the candidates with their voteCounts, totalVotes and the
\* vote records stay.
CycleKeepsVotes ==
  \A sender \in Callers, s \in Created :
    /\ LET r == endSession(Ledger, sender, now, s)
       IN r.ok => r.st.votingSessions[s] =
                    [votingSessions[s] EXCEPT !.isActive = FALSE]
    /\ LET r == startSession(Ledger, sender, now, s)
       IN r.ok => r.st.votingSessions[s] =
                    [votingSessions[s] EXCEPT !.isActive = TRUE]

\* The voters with a VoteCast in session s that is followed in the log by a
\* SessionEnded and then a SessionStarted of s.
VotedBeforePause(s) ==
  {v \in Callers :
     \E i \in VoteCastBy(s, v) :
       \E j \in (i + 1)..Len(log) :
         /\ log[j] = SessionEnded(s)
         /\ \E k \in (j + 1)..Len(log) : log[k] = SessionStarted(s)}

\* After the resume those voters are still recorded and are rejected as
\* having voted already.
StillAlreadyVoted ==
  \A s \in Created :
    \A v \in VotedBeforePause(s) :
      /\ votingSessions[s].hasVoted[v]
      /\ isSessionActive(Ledger, now, s) =>
           \A c \in CandidateIds :
             /\ Rejected(vote(Ledger, v, now, s, c))
             /\ vote(Ledger, v, now, s, c).err = "Already voted in this session"

\* C30: a session can be paused and resumed. After a successful endSession
\* a startSession succeeds again whenever startTime <= now < endTime; every
\* end and start keeps the voteCounts, totalVotes and vote records of the
\* session, and a voter who voted before a pause is still rejected as already
\* voted after the resume.
C30_PauseAndResume == ResumeInWindow /\ CycleKeepsVotes /\ StillAlreadyVoted

\* Session 1 holds the owner's vote for Alice, was ended and started again
\* and is active inside its window: the tally is kept and the owner's second
\* vote is rejected as already voted.
C30_Witness ==
  /\ owner \in VotedBeforePause(1)
  /\ isSessionActive(Ledger, now, 1)
  /\ votingSessions[1].startTime < now
  /\ votingSessions[1].totalVotes = 1
  /\ votingSessions[1].candidates[1].voteCount = 1
  /\ vote(Ledger, owner, now, 1, 2).err = "Already voted in this session"

(* ---- C31 ---- *)

\* The sessions in which a vote has been cast.
Polled == {s \in Created : votingSessions[s].totalVotes > 0}

\* The answer of getSessionWinner on s is an active candidate of s, with its
\* name and its voteCount, which is at least 1.
NamesActiveCandidate(s) ==
  /\ Winner(s).ok
  /\ Winner(s).ret.winnerVotes >= 1
  /\ \E c \in ActiveIds(votingSessions[s]) :
       /\ votingSessions[s].candidates[c].name = Winner(s).ret.winnerName
       /\ votingSessions[s].candidates[c].voteCount = Winner(s).ret.winnerVotes

\* The statement of C31 as it was made: whenever totalVotes > 0,
\* getSessionWinner names an active candidate with at least one vote, also
\* after candidates that received votes were deactivated.
C31_WinnerAlwaysNamed == \A s \in Polled : NamesActiveCandidate(s)

\* C31 (amended): whenever totalVotes > 0, getSessionWinner names an active
\* candidate with at least one vote if some active candidate has a vote, and
\* returns ("No winner", 0, false) if none has, which is so when every
\* candidate that received votes has been deactivated.
C31_WinnerNamedOrNoWinner ==
  \A s \in Polled :
    IF MaxActiveVotes(votingSessions[s]) > 0
    THEN NamesActiveCandidate(s)
    ELSE /\ Winner(s).ok
         /\ Winner(s).ret = WinnerResult("No winner", 0, FALSE)

\* Alice holds the only vote of session 1 and was deactivated; Bob is active
\* without a vote: the query answers "No winner".
C31_Witness ==
  /\ 1 \in Polled
  /\ ~votingSessions[1].candidates[1].isActive
  /\ votingSessions[1].candidates[1].voteCount = 1
  /\ votingSessions[1].candidates[2].isActive
  /\ Winner(1).ret = WinnerResult("No winner", 0, FALSE)

(* ---- C32 ---- *)

\* The sessions whose window has passed.
Finished == {s \in Created : now > votingSessions[s].endTime}

\* C32: the results of a finished session are final. Once the clock is past
\* the endTime of a session, no step changes the triple getSessionWinner
\* returns for it.
C32_FinishedResultsFinal ==
  [][\A s \in Finished : Winner(s).ret' = Winner(s).ret]_vars

(* ---- C33 ---- *)

\* A finished session is not active, and no vote and no startSession on it
\* succeeds.
FinishedIsClosed ==
  \A s \in Finished :
    /\ ~isSessionActive(Ledger, now, s)
    /\ \A sender \in Callers :
         /\ ~startSession(Ledger, sender, now, s).ok
         /\ \A c \in CandidateIds : ~vote(Ledger, sender, now, s, c).ok

\* A finished session stays finished, and no step changes its totalVotes, a
\* voteCount of its candidates or its vote records.
FinishedStaysClosed ==
  \A s \in Finished :
    /\ now' > votingSessions'[s].endTime
    /\ votingSessions'[s].totalVotes = votingSessions[s].totalVotes
    /\ votingSessions'[s].hasVoted = votingSessions[s].hasVoted
    /\ votingSessions'[s].voterChoice = votingSessions[s].voterChoice
    /\ \A c \in 1..MaxCandidates :
         votingSessions'[s].candidates[c].voteCount =
           votingSessions[s].candidates[c].voteCount

\* A session whose endTime lies before the horizon of the clock is finished
\* at some time, whether endSession is called or not.
EventuallyFinished ==
  \A s \in 1..MaxSessions :
    [](s \in Created /\ votingSessions[s].endTime < MaxTime
         => <>(s \in Finished))

\* C33: with a clock that never goes backwards, once now > endTime for a
\* session, isSessionActive is false in every later state, no vote and no
\* startSession on it succeeds again, and its totalVotes, the voteCount of
\* every candidate and its vote records never change again; when the clock
\* keeps advancing every session reaches this condition, even if endSession
\* is never called.
C33_LapsedSessionClosedForGood ==
  /\ []FinishedIsClosed
  /\ [][FinishedStaysClosed]_vars
  /\ EventuallyFinished

\* Session 1 holds a vote, was never ended (its flag is still set) and its
\* window has passed.
C33_Witness ==
  /\ 1 \in Finished
  /\ votingSessions[1].isActive
  /\ votingSessions[1].totalVotes = 1
  /\ \A i \in 1..Len(log) : log[i].type # "SessionEnded"

(* ---- C34 ---- *)

\* A vote in session s succeeds only at a clock value inside the window of s.
VotesInsideWindow ==
  \A v \in Callers, s \in Created, c \in CandidateIds :
    vote(Ledger, v, now, s, c).ok =>
      /\ votingSessions[s].startTime <= now
      /\ now <= votingSessions[s].endTime

\* Every VoteCast event of a session comes after a SessionStarted event of
\* that session.
VotesAfterStart ==
  \A i \in 1..Len(log) :
    log[i].type = "VoteCast" =>
      \E j \in 1..(i - 1) : log[j] = SessionStarted(log[i].sessionId)

\* The flag of a session is set only when its startTime has been reached.
FlagAfterStartTime ==
  \A s \in Created :
    votingSessions[s].isActive => now >= votingSessions[s].startTime

\* C34: with a clock that never goes backwards, every successful vote in a
\* session happens at a time within [startTime, endTime] and after a
\* successful startSession of it: every VoteCast event is preceded in the log
\* by a SessionStarted event of its session, and the flag of a session is
\* true only in states where now >= startTime.
C34_VotesWithinStartedWindow ==
  VotesInsideWindow /\ VotesAfterStart /\ FlagAfterStartTime

\* The session with the window [1, 2] was started when the clock had reached
\* 1, and a vote was cast in it.
C34_Witness ==
  /\ votingSessions[1].startTime = TraceStart
  /\ votingSessions[1].isActive
  /\ now >= TraceStart
  /\ \E i \in 1..Len(log) :
       /\ log[i].type = "VoteCast"
       /\ log[i].sessionId = 1
       /\ \E j \in 1..(i - 1) : log[j] = SessionStarted(1)

(* ---- C35 ---- *)

\* C35: in the event log the SessionCreated event of a session comes before
\* every CandidateAdded event that carries the id of that session.
C35_CreatedBeforeCandidates ==
  \A i \in 1..Len(log) :
    log[i].type = "CandidateAdded" =>
      \E j \in 1..(i - 1) :
        /\ log[j].type = "SessionCreated"
        /\ log[j].sessionId = log[i].sessionId

(* ---- C36 ---- *)

\* The places of the SessionStarted and SessionEnded events of session s.
Lifecycle(s) == EventsOf("SessionStarted", s) \cup EventsOf("SessionEnded", s)

\* Whether the last SessionStarted or SessionEnded event of s is a
\* SessionStarted.
LastIsStarted(s) ==
  \E i \in Lifecycle(s) :
    /\ log[i].type = "SessionStarted"
    /\ \A j \in Lifecycle(s) : j <= i

\* The identities carried by the VoterRegistered events.
Announced ==
  {log[i].voter : i \in {k \in 1..Len(log) : log[k].type = "VoterRegistered"}}

\* What the log tells about the sessions: each voteCount is the number of
\* VoteCast events for the session and the candidate, candidateCount is the
\* number of CandidateAdded events of the session, and the flag of a session
\* tells whether its last SessionStarted or SessionEnded event is a
\* SessionStarted.
SessionsFromLog ==
  \A s \in Created :
    /\ \A c \in 1..votingSessions[s].candidateCount :
         votingSessions[s].candidates[c].voteCount =
           Cardinality({i \in EventsOf("VoteCast", s) : log[i].candidateId = c})
    /\ votingSessions[s].candidateCount =
         Cardinality(EventsOf("CandidateAdded", s))
    /\ votingSessions[s].isActive <=> LastIsStarted(s)

\* The statement of C36 as it was made: the ledger state is that of the log,
\* and the registered identities are those carried by VoterRegistered events.
C36_StateFromLogAlone ==
  /\ SessionsFromLog
  /\ Registered = Announced

\* C36 (amended): the ledger state is that of the log, and the registered
\* identities are those carried by VoterRegistered events together with the
\* owner, whom the constructor registers without an event.
C36_StateFromLogAndOwner ==
  /\ SessionsFromLog
  /\ Registered = Announced \cup {owner}

\* Session 1 has a vote for each candidate, was ended and lost a candidate,
\* and v1 was registered by an event.
C36_Witness ==
  /\ votingSessions[1].totalVotes = 2
  /\ ~votingSessions[1].isActive
  /\ EventsOf("SessionEnded", 1) # {}
  /\ EventsOf("CandidateRemoved", 1) # {}
  /\ Announced = {"v1"}

(* ---- C37 ---- *)

\* The error kind of a result: "" for a success.
Kind(r) ==
  IF r.ok THEN ""
  ELSE IF r.err \in AuthErrors THEN "AuthError"
  ELSE IF r.err \in StateErrors THEN "StateError"
  ELSE IF r.err \in ValidationErrors THEN "ValidationError"
  ELSE "other"

\* The preconditions of vote(s, c) by v that are violated in the current state.
NotRegistered(v) == ~registeredVoters[v]
NoSuchSession(s) == s \notin Created
NotOpen(s) == ~isSessionActive(Ledger, now, s)
HasVoted(v, s) == votingSessions[s].hasVoted[v]
BadCandidate(s, c) == c \notin ActiveIds(votingSessions[s])

\* The statement of C37 as it was made: the error is that of the first
\* violated check in the order registration (AuthError), session exists and is
\* active (StateError), not yet voted (StateError), candidate in range and
\* active (ValidationError); an unregistered caller always gets AuthError.
C37_RegistrationCheckedFirst ==
  \A v \in Callers, s \in SessionIds, c \in CandidateIds :
    Kind(VoteNow(v, s, c)) =
      IF NotRegistered(v) THEN "AuthError"
      ELSE IF NoSuchSession(s) \/ NotOpen(s) THEN "StateError"
      ELSE IF HasVoted(v, s) THEN "StateError"
      ELSE IF BadCandidate(s, c) THEN "ValidationError"
      ELSE ""

\* C37 (amended): the error is that of the first violated check in the order
\* session exists (StateError), registration (AuthError), session active
\* (StateError), not yet voted (StateError), candidate in range and active
\* (ValidationError); an unregistered caller gets AuthError for every
\* existing session id and StateError for the others.
C37_ExistenceCheckedFirst ==
  \A v \in Callers, s \in SessionIds, c \in CandidateIds :
    Kind(VoteNow(v, s, c)) =
      IF NoSuchSession(s) THEN "StateError"
      ELSE IF NotRegistered(v) THEN "AuthError"
      ELSE IF NotOpen(s) THEN "StateError"
      ELSE IF HasVoted(v, s) THEN "StateError"
      ELSE IF BadCandidate(s, c) THEN "ValidationError"
      ELSE ""

\* v1 is not registered and the owner has voted in the open session 1: a
\* vote of v1 violates several checks at once, on session 1 and on the
\* missing session 2, and so does a second vote of the owner for candidate 0.
C37_Witness ==
  /\ NotRegistered("v1")
  /\ sessionCount = 1
  /\ ~NotOpen(1)
  /\ HasVoted(owner, 1)
  /\ Kind(VoteNow("v1", 1, 0)) = "AuthError"
  /\ Kind(VoteNow("v1", 2, 0)) = "StateError"
  /\ VoteNow(owner, 1, 0).err = "Already voted in this session"

(* ---- C38 ---- *)

\* C38: every session that accepts votes offers a choice. In every state in
\* which isSessionActive is true of a session, the session has at least one
\* active candidate.
C38_OpenSessionHasCandidate ==
  \A s \in ActiveNow : ActiveIds(votingSessions[s]) # {}

(* ---- C39 ---- *)

\* The ids that denote no session, up to one above the largest possible id.
Missing == (0..(MaxSessions + 1)) \ Created

\* A query result that is a failure and leaves the ledger as it is.
FailsUnchanged(r) == ~r.ok /\ r.st = Ledger

\* C39: on an id that denotes no session (0 or above sessionCount)
\* isSessionActive returns false, whereas hasVotedInSession, getVoterChoice,
\* getSessionWinner, getSessionCandidates and getSession fail; none of them
\* changes the state.
C39_QueriesOnMissingSession ==
  \A sid \in Missing :
    /\ isSessionActive(Ledger, now, sid) = FALSE
    /\ FailsUnchanged(getSessionWinner(Ledger, sid))
    /\ FailsUnchanged(getSessionCandidates(Ledger, sid))
    /\ FailsUnchanged(getSession(Ledger, sid))
    /\ \A voter \in Address :
         /\ FailsUnchanged(hasVotedInSession(Ledger, voter, sid))
         /\ FailsUnchanged(getVoterChoice(Ledger, voter, sid))

\* Session 1 exists, holds the owner's vote and lost a candidate: the queries
\* answer for id 1 and fail for the ids 0 and 2.
C39_Witness ==
  /\ sessionCount = 1
  /\ Missing = (0..(MaxSessions + 1)) \ {1}
  /\ hasVotedInSession(Ledger, owner, 1).ret = TRUE
  /\ getVoterChoice(Ledger, owner, 1).ok
  /\ getSession(Ledger, 1).ret.totalVotes = 1
  /\ Len(getSessionCandidates(Ledger, 1).ret) = 1
  /\ getSessionWinner(Ledger, 1).ok
  /\ ~getSession(Ledger, 2).ok
  /\ ~hasVotedInSession(Ledger, owner, 0).ok

(* ---- C40 ---- *)

\* The sessions whose window has passed and whose flag is still set.
Overdue == {s \in Finished : votingSessions[s].isActive}

\* C40: in the owner dashboard, which fills isActive from isSessionActive
\* and reads the same clock as the ledger, a session whose end time has
\* passed while its flag is still set is categorised as "expired" and is
\* offered the end action.
C40_OverdueSessionOfferedEnd ==
  \A s \in Overdue :
    /\ getSessionCategory(loadSessions(Ledger, now, s), ToDate(now)) = "expired"
    /\ canEndSession(loadSessions(Ledger, now, s), ToDate(now))

====
